---- MODULE Spec2Model ----
(***************************************************************************)
(* XRPL Playground (src/app.js): the test registry, the transaction object *)
(* builders and the test runner, as a state machine.                       *)
(*                                                                         *)
(* Encoding of JavaScript values.  Text that the program inspects          *)
(* character by character (field raw values, error messages, result       *)
(* codes) is a sequence of one-character strings.  Every JavaScript value  *)
(* that can sit in a test or in a built transaction object is tagged:      *)
(*   [str |-> chars]   a string                                            *)
(*   [num |-> n]       a number                                            *)
(*   [bool |-> b]      a boolean                                           *)
(*   [null |-> TRUE]   null                                                *)
(*   [obj |-> f]       an object, f a function from keys to values         *)
(*   [sym |-> a]       an opaque string the program never looks into       *)
(*                     (a transaction type name, a hash, an address)       *)
(***************************************************************************)
EXTENDS Integers, Sequences, FiniteSets, TLC

\* ------------------------------------------------------------------ bounds

\* Most tests ever created in one behaviour.
MaxTests == 3
\* Most calls of addTransaction where the registry functions are called one
\* by one.
MaxCalls == 3
\* Longest raw field value drawn character by character.
MaxRawLen == 2
\* Most field blocks on one test.
MaxBlocks == 1
\* Most tests ever created where the handlers are followed through whole
\* runs.
MaxLiveTests == 2

\* ------------------------------------------------------------- JS values

Str(s) == [str |-> s]
Num(n) == [num |-> n]
Bool(b) == [bool |-> b]
JsNull == [null |-> TRUE]
Obj(f) == [obj |-> f]
Sym(a) == [sym |-> a]

IsStr(v) == DOMAIN v = {"str"}
IsNum(v) == DOMAIN v = {"num"}
IsObj(v) == DOMAIN v = {"obj"}
IsNull(v) == DOMAIN v = {"null"}

\* !v for the values a block can hold: only the empty string is falsy
\* (objects and non-empty strings are truthy).
Falsy(v) == v = Str(<<>>) \/ IsNull(v)

\* ------------------------------------------------------------------ text

Digits == {"0", "1", "2", "3", "4", "5", "6", "7", "8", "9"}
Upper ==
    {"A", "B", "C", "D", "E", "F", "G", "H", "I", "J", "K", "L", "M",
     "N", "O", "P", "Q", "R", "S", "T", "U", "V", "W", "X", "Y", "Z"}
\* The one white-space character of the inputs.
White == {" "}

DigitVal(c) ==
    CASE c = "0" -> 0 [] c = "1" -> 1 [] c = "2" -> 2 [] c = "3" -> 3
      [] c = "4" -> 4 [] c = "5" -> 5 [] c = "6" -> 6 [] c = "7" -> 7
      [] c = "8" -> 8 [] c = "9" -> 9

\* All sequences over S of length at most n.
SeqsUpTo(S, n) == UNION {[1..k -> S] : k \in 0..n}

\* s without its first n elements.
Drop(s, n) == SubSeq(s, n + 1, Len(s))

\* The length of the longest prefix of s whose characters are all in S.
RECURSIVE PrefixLen(_, _)
PrefixLen(s, S) ==
    IF s # <<>> /\ Head(s) \in S THEN 1 + PrefixLen(Tail(s), S) ELSE 0

\* The length of the longest suffix of s whose characters are all in S.
RECURSIVE SuffixLen(_, _)
SuffixLen(s, S) ==
    IF s # <<>> /\ s[Len(s)] \in S
    THEN 1 + SuffixLen(SubSeq(s, 1, Len(s) - 1), S)
    ELSE 0

\* String.prototype.trim().
Trim(s) ==
    LET a == PrefixLen(s, White)
    IN  IF a = Len(s) THEN <<>>
        ELSE SubSeq(s, a + 1, Len(s) - SuffixLen(s, White))

\* The value of a sequence of decimal digits.
RECURSIVE DecimalValue(_)
DecimalValue(ds) ==
    IF ds = <<>> THEN 0
    ELSE 10 * DecimalValue(SubSeq(ds, 1, Len(ds) - 1)) + DigitVal(ds[Len(ds)])

\* parseInt(value, 10): leading white space is skipped, one sign is read,
\* then the longest run of digits; what follows the digits is ignored.
\* No digit at that place gives NaN.
parseInt(value) ==
    LET s == Drop(value, PrefixLen(value, White))
        signed == s # <<>> /\ Head(s) \in {"-", "+"}
        body == IF signed THEN Tail(s) ELSE s
        n == PrefixLen(body, Digits)
        mag == DecimalValue(SubSeq(body, 1, n))
    IN  IF n = 0 THEN [nan |-> TRUE]
        ELSE [nan |-> FALSE,
              num |-> IF signed /\ Head(s) = "-" THEN 0 - mag ELSE mag]

\* JSON.parse(text) on texts made of digits, "-", letters and blanks (no
\* quote, bracket, brace, "." or exponent occurs in the inputs): white space
\* around the value is allowed, the value is an integer literal without a
\* leading zero, or one of the literals true, false, null.  Anything else
\* throws.
JSONParse(text) ==
    LET t == Trim(text)
        neg == t # <<>> /\ Head(t) = "-"
        body == IF neg THEN Tail(t) ELSE t
        isInt == /\ body # <<>>
                 /\ PrefixLen(body, Digits) = Len(body)
                 /\ (Len(body) > 1 => Head(body) # "0")
    IN  CASE isInt ->
               [ok |-> TRUE,
                val |-> Num(IF neg THEN 0 - DecimalValue(body)
                                   ELSE DecimalValue(body))]
          [] t = <<"t", "r", "u", "e">> -> [ok |-> TRUE, val |-> Bool(TRUE)]
          [] t = <<"f", "a", "l", "s", "e">> -> [ok |-> TRUE, val |-> Bool(FALSE)]
          [] t = <<"n", "u", "l", "l">> -> [ok |-> TRUE, val |-> JsNull]
          [] OTHER -> [ok |-> FALSE]

\* --------------------------------------------------------- field catalog

\* The field names of the model's catalog and their declared types
\* (definitions.FIELDS); the palette offers only fields the catalog lists.
FieldNames == {"Account", "Amount", "LastLedgerSequence"}

definitions ==
    [FIELDS |-> [Account |-> "AccountID", Amount |-> "Amount",
                 LastLedgerSequence |-> "UInt32"]]

NoFieldInfo == [none |-> TRUE]

getFieldInfo(fieldName) ==
    IF fieldName \in DOMAIN definitions.FIELDS
    THEN [type |-> definitions.FIELDS[fieldName]]
    ELSE NoFieldInfo

\* type.startsWith('UInt')
UIntTypes == {"UInt8", "UInt16", "UInt32", "UInt64", "UInt96", "UInt128",
              "UInt160", "UInt192", "UInt256", "UInt384", "UInt512"}

\* The result of convertFieldValue with a numeric prefix read by parseInt.
ConvertNumeric(value) ==
    LET num == parseInt(value)
    IN  IF num.nan THEN Str(value) ELSE Num(num.num)

\* An Amount parsed like any other JSON text.
ConvertAmountParsed(value) ==
    LET parsed == JSONParse(value)
    IN  IF parsed.ok THEN parsed.val ELSE Str(value)

ConvertAmount(value) == Str(value)

convertFieldValue(value, fieldInfo) ==
    IF fieldInfo = NoFieldInfo THEN Str(value)
    ELSE IF fieldInfo.type = "Amount" THEN ConvertAmount(value)
    ELSE IF fieldInfo.type \in UIntTypes \/ fieldInfo.type = "Number"
         THEN ConvertNumeric(value)
    ELSE Str(value)

\* ------------------------------------------------------------- builders

\* obj with obj[key] = val.
SetKey(obj, key, val) ==
    [k \in DOMAIN obj \cup {key} |-> IF k = key THEN val ELSE obj[k]]

EmptyObject == [k \in {} |-> JsNull]

\* An IOU/MPT record with every member turned into a string.
CleanedObject(value) == Obj([k \in DOMAIN value.obj |-> value.obj[k]])

\* The value buildTransactionObjectFromTest stores for a scalar block.
FromTestScalar(fieldName, valueStr) ==
    LET fieldInfo == getFieldInfo(fieldName)
    IN  IF fieldInfo # NoFieldInfo /\ fieldInfo.type = "Amount"
        THEN convertFieldValue(valueStr, fieldInfo)
        ELSE LET parsed == JSONParse(valueStr)
             IN  IF parsed.ok THEN parsed.val
                 ELSE convertFieldValue(valueStr, fieldInfo)

RECURSIVE FromTestBlocks(_, _)
FromTestBlocks(txObject, blocks) ==
    IF blocks = <<>> THEN txObject
    ELSE LET block == Head(blocks)
             next ==
                 IF Falsy(block.value) THEN txObject
                 ELSE IF IsObj(block.value)
                      THEN SetKey(txObject, block.fieldName,
                                  CleanedObject(block.value))
                 ELSE SetKey(txObject, block.fieldName,
                             FromTestScalar(block.fieldName, block.value.str))
         IN  FromTestBlocks(next, Tail(blocks))

buildTransactionObjectFromTest(transaction) ==
    FromTestBlocks([TransactionType |-> transaction.type], transaction.blocks)

RECURSIVE PreviewBlocks(_, _)
PreviewBlocks(transaction, blocks) ==
    IF blocks = <<>> THEN transaction
    ELSE LET block == Head(blocks)
             next ==
                 IF Falsy(block.value) THEN transaction
                 ELSE IF IsObj(block.value)
                      THEN SetKey(transaction, block.fieldName,
                                  CleanedObject(block.value))
                 ELSE IF Trim(block.value.str) # <<>>
                      THEN SetKey(transaction, block.fieldName,
                                  convertFieldValue(block.value.str,
                                                    getFieldInfo(block.fieldName)))
                 ELSE transaction
         IN  PreviewBlocks(next, Tail(blocks))

\* What the preview shows when no test is current: the object built from the
\* legacy workspaceBlocks/transactionType globals, which the model does not
\* follow.
LegacyOutput == [legacy |-> TRUE]

\* ----------------------------------------------------------------- state

VARIABLES
    transactions,            \* the registry: a sequence of test records
    currentTransactionId,    \* the id of the test being edited, NoId if none
    nextTransactionNumber,   \* the auto-name counter
    nextId,                  \* the next id generateTransactionId returns
    accounts,                \* the account list: records [address, seed]
    storage,                 \* localStorage[STORAGE_KEYS.TESTS], NoSnapshot if unset
    jsonOutput,              \* the object shown in the JSON preview
    download,                \* the report the last handler offered, NoDownload if none
    tasks                    \* the suspended runAllTests/runCurrentTest calls

vars == <<transactions, currentTransactionId, nextTransactionNumber, nextId,
          accounts, storage, jsonOutput, download, tasks>>

NoId == 0
\* The calls that can be suspended at a network await at the same time.
TaskSlots == {1, 2}
Idle == [idle |-> TRUE]
NoRun == [norun |-> TRUE]
NoSnapshot == [none |-> TRUE]
NoDownload == [none |-> TRUE]

\* The name `Test ${n}`.
TestName(n) == [test |-> n]

tesSUCCESS == <<"t", "e", "s", "S", "U", "C", "C", "E", "S", "S">>
tecNO_DST == <<"t", "e", "c", "N", "O", "_", "D", "S", "T">>

\* The result codes the expected-result dropdown offers
\* (the keys of definitions.TRANSACTION_RESULTS).
ResultCodes == {tesSUCCESS, tecNO_DST}

\* The transaction types of the palette (definitions.TRANSACTION_TYPES).
TypeNames == {"Payment"}

\* Raw texts typed into a field input: every text over RawChars of at most
\* MaxRawLen characters, and a few longer ones.
RawChars == {"5", "0", "x", " "}
SampleRaw ==
    {<<"1", "0", "0", "0", "0", "0", "0">>, <<"t", "r", "u", "e">>,
     <<"n", "u", "l", "l">>, <<"a", "b", "c">>, <<"0", "x", "1", "0">>,
     <<"-", "5">>}
RawTexts == SeqsUpTo(RawChars, MaxRawLen) \cup SampleRaw

\* The record the IOU inputs produce once all three are filled.
SampleIOU ==
    Obj([currency |-> Str(<<"U", "S", "D">>), issuer |-> Str(<<"r", "X">>),
         value |-> Str(<<"5">>)])

RawValues == {Str(t) : t \in RawTexts} \cup {SampleIOU}

\* ------------------------------------------------------ registry helpers

\* transactions.findIndex(tx => tx.id === id), 0 when there is none.
FindIndex(txs, id) ==
    IF \E i \in 1..Len(txs) : txs[i].id = id
    THEN CHOOSE i \in 1..Len(txs) :
             txs[i].id = id /\ \A j \in 1..(i - 1) : txs[j].id # id
    ELSE 0

Ids(txs) == {txs[i].id : i \in 1..Len(txs)}

\* The ids of the tests of txs, in order.
IdList(txs) == [i \in 1..Len(txs) |-> txs[i].id]

\* s without its i-th element (splice(i, 1)).
RemoveAt(s, i) == SubSeq(s, 1, i - 1) \o SubSeq(s, i + 1, Len(s))

\* A new test that starts out running and expecting tecNO_DST.
createTransactionOffDefaults(id, name) ==
    [id |-> id, name |-> name, type |-> JsNull, blocks |-> <<>>,
     status |-> "running", expectedResult |-> Str(tecNO_DST),
     actualResult |-> JsNull, submittedAt |-> JsNull, hash |-> JsNull]

createTransaction(id, name) ==
    [id |-> id, name |-> name, type |-> JsNull, blocks |-> <<>>,
     status |-> "pending", expectedResult |-> Str(tesSUCCESS),
     actualResult |-> JsNull, submittedAt |-> JsNull, hash |-> JsNull]

\* getCurrentTransaction() on a registry: the index of the current test, 0 if
\* there is none.
CurrentIndex(txs, cur) == IF cur = NoId THEN 0 ELSE FindIndex(txs, cur)

buildTransactionObject(txs, cur) ==
    LET i == CurrentIndex(txs, cur)
    IN  IF i = 0 THEN LegacyOutput
        ELSE PreviewBlocks(
                 IF IsNull(txs[i].type) THEN EmptyObject
                 ELSE [TransactionType |-> txs[i].type],
                 txs[i].blocks)

\* The snapshot saveTestsToStorage writes.
Snapshot(txs, cur, n) ==
    [transactions |-> txs, currentTransactionId |-> cur,
     nextTransactionNumber |-> n]

\* txs with the test at index i replaced by t.
SetTest(txs, i, t) == [txs EXCEPT ![i] = t]

\* ------------------------------------------------------------------ Init

\* The page has loaded with nothing stored: loadTestsFromStorage returned
\* false, addTransaction('Test 1') ran and updateJSONOutput showed the preview.
Init ==
    /\ transactions = <<createTransaction(1, TestName(1))>>
    /\ currentTransactionId = 1
    /\ nextTransactionNumber = 2
    /\ nextId = 2
    /\ accounts = <<>>
    /\ storage = NoSnapshot
    /\ jsonOutput = EmptyObject
    /\ download = NoDownload
    /\ tasks = [s \in TaskSlots |-> Idle]

\* --------------------------------------------------- field edit handlers

\* handleDrop of a transaction type block: setTransactionType, then
\* updateJSONOutput and saveTestsToStorage.
SetTransactionType(typeName) ==
    LET i == CurrentIndex(transactions, currentTransactionId)
        txs == IF i = 0 THEN transactions
               ELSE SetTest(transactions, i,
                            [transactions[i] EXCEPT !.type = Sym(typeName)])
    IN  /\ transactions' = txs
        /\ jsonOutput' = buildTransactionObject(txs, currentTransactionId)
        /\ storage' = Snapshot(txs, currentTransactionId, nextTransactionNumber)
        /\ download' = NoDownload
        /\ UNCHANGED <<currentTransactionId, nextTransactionNumber, nextId,
                       accounts, tasks>>

\* An addFieldBlock that does not look for the field.
addFieldBlockUnchecked(blocks, fieldName) ==
    Append(blocks, [fieldName |-> fieldName, value |-> Str(<<>>)])

\* The blocks of a test after addFieldBlock(fieldName).
addFieldBlock(blocks, fieldName) ==
    IF \E k \in 1..Len(blocks) : blocks[k].fieldName = fieldName
    THEN blocks
    ELSE Append(blocks, [fieldName |-> fieldName, value |-> Str(<<>>)])

\* handleDrop of a field block: addFieldBlock, then updateJSONOutput and
\* saveTestsToStorage.  The field palette is shown only while the current
\* test has a type (updateTransactionTypeSectionVisibility).
AddField(fieldName) ==
    LET i == CurrentIndex(transactions, currentTransactionId)
    IN  /\ i # 0
        /\ ~IsNull(transactions[i].type)
        /\ LET txs == SetTest(transactions, i,
                        [transactions[i] EXCEPT
                             !.blocks = addFieldBlock(@, fieldName)])
           IN  /\ transactions' = txs
               /\ jsonOutput' = buildTransactionObject(txs, currentTransactionId)
               /\ storage' = Snapshot(txs, currentTransactionId,
                                      nextTransactionNumber)
        /\ download' = NoDownload
        /\ UNCHANGED <<currentTransactionId, nextTransactionNumber, nextId,
                       accounts, tasks>>

\* updateFieldValue(fieldName, value), from the input of a block of the
\* current test: sets the value and refreshes the preview; nothing is saved.
UpdateFieldValue(fieldName, value) ==
    LET i == CurrentIndex(transactions, currentTransactionId)
    IN  /\ i # 0
        /\ \E k \in 1..Len(transactions[i].blocks) :
               /\ transactions[i].blocks[k].fieldName = fieldName
               /\ LET txs == SetTest(transactions, i,
                               [transactions[i] EXCEPT
                                    !.blocks[k].value = value])
                  IN  /\ transactions' = txs
                      /\ jsonOutput' =
                             buildTransactionObject(txs, currentTransactionId)
        /\ download' = NoDownload
        /\ UNCHANGED <<currentTransactionId, nextTransactionNumber, nextId,
                       accounts, storage, tasks>>

\* blocks.filter(b => b.fieldName !== fieldName)
RECURSIVE FilterOut(_, _)
FilterOut(blocks, fieldName) ==
    IF blocks = <<>> THEN <<>>
    ELSE IF Head(blocks).fieldName = fieldName
         THEN FilterOut(Tail(blocks), fieldName)
         ELSE <<Head(blocks)>> \o FilterOut(Tail(blocks), fieldName)

\* removeFieldBlock(fieldName), from the remove button of a block of the
\* current test.
RemoveFieldBlock(fieldName) ==
    LET i == CurrentIndex(transactions, currentTransactionId)
    IN  /\ i # 0
        /\ \E k \in 1..Len(transactions[i].blocks) :
               transactions[i].blocks[k].fieldName = fieldName
        /\ LET txs == SetTest(transactions, i,
                        [transactions[i] EXCEPT
                             !.blocks = FilterOut(@, fieldName)])
           IN  /\ transactions' = txs
               /\ jsonOutput' = buildTransactionObject(txs, currentTransactionId)
               /\ storage' = Snapshot(txs, currentTransactionId,
                                      nextTransactionNumber)
        /\ download' = NoDownload
        /\ UNCHANGED <<currentTransactionId, nextTransactionNumber, nextId,
                       accounts, tasks>>

\* -------------------------------------------------------------- reports

\* One entry of the JSON report's tests list.
ReportEntry(tx) ==
    [name |-> tx.name, type |-> tx.type, status |-> tx.status,
     expectedResult |-> tx.expectedResult, actualResult |-> tx.actualResult,
     hash |-> tx.hash, submittedAt |-> tx.submittedAt,
     transaction |-> buildTransactionObjectFromTest(tx)]

\* The tests of a registry that have that status.
CountStatus(txs, status) ==
    Cardinality({i \in 1..Len(txs) : txs[i].status = status})

\* A pass rate that drops the fraction of the percentage.
passRateTruncated(passed, total) ==
    IF total > 0 THEN (100 * passed) \div total ELSE 0

\* total > 0 ? Math.round((passed / total) * 100) : 0, where Math.round(x)
\* is the floor of x + 1/2.
passRate(passed, total) ==
    IF total > 0 THEN (200 * passed + total) \div (2 * total) ELSE 0

\* The text `${passRate}%`.
Percent(n) == [percent |-> n]

\* The counts in the report's metadata (besides the time and the network).
ReportMetadata(txs) ==
    [totalTests |-> Len(txs),
     passed |-> CountStatus(txs, "passed"),
     failed |-> CountStatus(txs, "failed"),
     passRate |-> Percent(passRate(CountStatus(txs, "passed"), Len(txs)))]

\* renderTestResultsSummary: the panel is hidden while no test has passed
\* or failed, and shows the counts otherwise.
SummaryHidden == [hidden |-> TRUE]
renderTestResultsSummary(txs) ==
    IF CountStatus(txs, "passed") + CountStatus(txs, "failed") = 0
    THEN SummaryHidden
    ELSE [total |-> Len(txs),
          passed |-> CountStatus(txs, "passed"),
          failed |-> CountStatus(txs, "failed"),
          passRate |-> Percent(passRate(CountStatus(txs, "passed"),
                                        Len(txs)))]

\* An export whose builder takes the blocks off the tests it reads.
ExportConsumingBlocks ==
    /\ download' =
           [format |-> "json",
            metadata |-> ReportMetadata(transactions),
            tests |-> [i \in 1..Len(transactions) |->
                          ReportEntry(transactions[i])]]
    /\ transactions' =
           [i \in 1..Len(transactions) |->
               [transactions[i] EXCEPT !.blocks = <<>>]]
    /\ UNCHANGED <<currentTransactionId, nextTransactionNumber, nextId,
                   accounts, storage, jsonOutput, tasks>>

\* downloadTestReportJSON: changes no state and offers the report.
DownloadTestReportJSON ==
    /\ download' =
           [format |-> "json",
            metadata |-> ReportMetadata(transactions),
            tests |-> [i \in 1..Len(transactions) |->
                          ReportEntry(transactions[i])]]
    /\ UNCHANGED <<transactions, currentTransactionId, nextTransactionNumber,
                   nextId, accounts, storage, jsonOutput, tasks>>

\* The test has been run to an end.
HasResult(tx) == tx.status = "passed" \/ tx.status = "failed"

\* The indexes of the tests of txs that have been run to an end, in order.
ResultIndexes(txs) ==
    SelectSeq([i \in 1..Len(txs) |-> i], LAMBDA i : HasResult(txs[i]))

\* value || 'N/A'.
OrNA(value) == IF Falsy(value) THEN Str(<<"N", "/", "A">>) ELSE value

\* One item of the details of the results summary panel.
SummaryItem(tx) ==
    [name |-> tx.name, status |-> tx.status,
     actualResult |-> OrNA(tx.actualResult), hash |-> tx.hash]

\* The details of the results summary panel: an item for each test that
\* has passed or failed.
SummaryDetails(txs) ==
    [k \in 1..Len(ResultIndexes(txs)) |->
        SummaryItem(txs[ResultIndexes(txs)[k]])]

\* One section of the Markdown report: the test at that index.
MarkdownEntry(tx, index) ==
    [index |-> index, name |-> tx.name, type |-> OrNA(tx.type),
     status |-> tx.status, expectedResult |-> tx.expectedResult,
     actualResult |-> OrNA(tx.actualResult), hash |-> tx.hash,
     submittedAt |-> tx.submittedAt,
     transaction |-> buildTransactionObjectFromTest(tx)]

\* downloadTestReportMarkdown: changes no state and offers the report, with
\* a section for each test that has passed or failed.
DownloadTestReportMarkdown ==
    /\ download' =
           [format |-> "markdown",
            metadata |-> ReportMetadata(transactions),
            tests |-> [k \in 1..Len(ResultIndexes(transactions)) |->
                          MarkdownEntry(
                              transactions[ResultIndexes(transactions)[k]],
                              ResultIndexes(transactions)[k])]]
    /\ UNCHANGED <<transactions, currentTransactionId, nextTransactionNumber,
                   nextId, accounts, storage, jsonOutput, tasks>>

\* -------------------------------------------------------------- accounts

\* The accounts the user can put in the list: one generated with a seed
\* (generateAccount) and one added by address, without a seed (addAccount).
SignerAccount == [address |-> Sym("rSigner"), seed |-> Sym("sSigner")]
WatchAccount == [address |-> Sym("rWatch"), seed |-> JsNull]

HasAddress(accs, address) ==
    \E k \in 1..Len(accs) : accs[k].address = address

\* generateAccount: a wallet with a seed is appended.
GenerateAccount ==
    /\ ~HasAddress(accounts, SignerAccount.address)
    /\ accounts' = Append(accounts, SignerAccount)
    /\ download' = NoDownload
    /\ UNCHANGED <<transactions, currentTransactionId, nextTransactionNumber,
                   nextId, storage, jsonOutput, tasks>>

\* addAccount: an address is appended with seed null, unless it is listed.
AddAccount ==
    /\ ~HasAddress(accounts, WatchAccount.address)
    /\ accounts' = Append(accounts, WatchAccount)
    /\ download' = NoDownload
    /\ UNCHANGED <<transactions, currentTransactionId, nextTransactionNumber,
                   nextId, storage, jsonOutput, tasks>>

\* The remove button of the account at index.
RemoveAccount(index) ==
    /\ index \in 1..Len(accounts)
    /\ accounts' = RemoveAt(accounts, index)
    /\ download' = NoDownload
    /\ UNCHANGED <<transactions, currentTransactionId, nextTransactionNumber,
                   nextId, storage, jsonOutput, tasks>>

\* The index of the first account, with a seed or not; 0 when there is none.
FirstAccountIndex(accs) == IF Len(accs) > 0 THEN 1 ELSE 0

\* accounts.find(acc => acc.seed): the index of the first account with a
\* seed, 0 when there is none.
SigningAccountIndex(accs) ==
    IF \E k \in 1..Len(accs) : ~IsNull(accs[k].seed)
    THEN CHOOSE k \in 1..Len(accs) :
             /\ ~IsNull(accs[k].seed)
             /\ \A j \in 1..(k - 1) : IsNull(accs[j].seed)
    ELSE 0

\* ------------------------------------------------------- network client

\* What submitAndWait can return: a result code and the transaction hash.
Hashes == {"H1"}
\* The validated ledger index the ledger request returns.
LedgerIndexes == {100}
\* The offset added to it for LastLedgerSequence.
LastLedgerOffset == 5

\* The messages of the errors the client rejects with: one that carries the
\* code tecNO_DST, one that carries tesSUCCESS, and one without any code (its
\* "tem" is followed by a lower-case letter).
MsgNoDst == <<"f", ":", " ">> \o tecNO_DST \o <<":", " ", "d">>
MsgSuccess == tesSUCCESS
MsgTemp == <<"t", "e", "m", "p">>
ErrorTexts == {MsgNoDst, MsgSuccess, MsgTemp}

\* The positions where /te[cflmrs][A-Z_]+/ matches in text.
CodeChars == Upper \cup {"_"}
MatchStarts(text) ==
    {q \in 1..(Len(text) - 3) :
        /\ text[q] = "t"
        /\ text[q + 1] = "e"
        /\ text[q + 2] \in {"c", "f", "l", "m", "r", "s"}
        /\ text[q + 3] \in CodeChars}

\* error.message.match(/(te[cflmrs][A-Z_]+)/): the leftmost match, taken as
\* long as it goes; NoMatch if there is none.
NoMatch == [nomatch |-> TRUE]
resultCodeMatch(text) ==
    IF MatchStarts(text) = {} THEN NoMatch
    ELSE LET q == CHOOSE a \in MatchStarts(text) :
                      \A b \in MatchStarts(text) : a <= b
             n == PrefixLen(Drop(text, q + 2), CodeChars)
         IN  Str(SubSeq(text, q, q + 2 + n))

\* ---------------------------------------------------------- test runner

NoTransactionType ==
    <<"N", "o", " ", "t", "r", "a", "n", "s", "a", "c", "t", "i", "o", "n",
      " ", "t", "y", "p", "e">>
NoSigningAccount ==
    <<"N", "o", " ", "s", "i", "g", "n", "i", "n", "g", " ", "a", "c", "c",
      "o", "u", "n", "t">>

\* new Date().toISOString() read at a point of a run.  The two readings of
\* one run lie a network round trip apart and so differ.
TimeAt(point) == [time |-> point]

\* updateTransactionStatus(id, status, result).
updateTransactionStatus(txs, id, status, result) ==
    LET i == FindIndex(txs, id)
    IN  IF i = 0 THEN txs
        ELSE SetTest(txs, i,
                 [txs[i] EXCEPT
                      !.status = status,
                      !.actualResult = IF result # JsNull THEN result ELSE @,
                      !.submittedAt = IF status = "running"
                                      THEN TimeAt("running") ELSE @])

\* JavaScript truthiness of a value of a transaction object.
Truthy(v) ==
    /\ v # Str(<<>>)
    /\ v # JsNull
    /\ v # Num(0)
    /\ v # Bool(FALSE)

HasTruthy(obj, key) == key \in DOMAIN obj /\ Truthy(obj[key])

\* The copy of txObject without the keys whose value is null or ''.
cleanedTxObject(txObject) ==
    [k \in {key \in DOMAIN txObject :
               txObject[key] # JsNull /\ txObject[key] # Str(<<>>)}
        |-> txObject[k]]

\* A run that takes every test as typed.
TypeNeverUnset(transaction) == FALSE

\* !transaction.type
TypeUnset(transaction) == IsNull(transaction.type)

NotSubmitted == [notsubmitted |-> TRUE]
NoResult == [noresult |-> TRUE]

\* A runSingleTest that, finding no test of that id, fails the first test
\* of the registry instead.
runSingleTestMarksFirst(txs, accs, transactionId) ==
    LET i == FindIndex(txs, transactionId)
        a == SigningAccountIndex(accs)
    IN  IF i = 0
        THEN [transactions |->
                  IF txs = <<>> THEN txs
                  ELSE updateTransactionStatus(txs, txs[1].id, "failed",
                                               Str(NoTransactionType)),
              saved |-> TRUE, run |-> NoRun]
        ELSE IF TypeUnset(txs[i])
        THEN [transactions |->
                  updateTransactionStatus(txs, transactionId, "failed",
                                          Str(NoTransactionType)),
              saved |-> TRUE, run |-> NoRun]
        ELSE IF a = 0
        THEN [transactions |->
                  updateTransactionStatus(txs, transactionId, "failed",
                                          Str(NoSigningAccount)),
              saved |-> TRUE, run |-> NoRun]
        ELSE [transactions |->
                  updateTransactionStatus(txs, transactionId, "running", JsNull),
              saved |-> TRUE,
              run |-> [id |-> transactionId,
                       pc |-> "connect",
                       calls |-> <<"connect">>,
                       txObject |-> buildTransactionObjectFromTest(txs[i]),
                       address |-> accs[a].address,
                       submitted |-> NotSubmitted,
                       result |-> NoResult]]

\* runSingleTest(transactionId) up to its first await, on registry txs: the
\* registry it leaves, whether it saved, and the run it suspended (at
\* client.connect()), NoRun if it returned.
runSingleTestStart(txs, accs, transactionId) ==
    LET i == FindIndex(txs, transactionId)
        a == SigningAccountIndex(accs)
    IN  IF i = 0
        THEN [transactions |-> txs, saved |-> FALSE, run |-> NoRun]
        ELSE IF TypeUnset(txs[i])
        THEN [transactions |->
                  updateTransactionStatus(txs, transactionId, "failed",
                                          Str(NoTransactionType)),
              saved |-> TRUE, run |-> NoRun]
        ELSE IF a = 0
        THEN [transactions |->
                  updateTransactionStatus(txs, transactionId, "failed",
                                          Str(NoSigningAccount)),
              saved |-> TRUE, run |-> NoRun]
        ELSE [transactions |->
                  updateTransactionStatus(txs, transactionId, "running", JsNull),
              saved |-> TRUE,
              run |-> [id |-> transactionId,
                       pc |-> "connect",
                       calls |-> <<"connect">>,
                       txObject |-> buildTransactionObjectFromTest(txs[i]),
                       address |-> accs[a].address,
                       submitted |-> NotSubmitted,
                       result |-> NoResult]]

\* The snapshot in storage after a handler that saved or not.
StorageAfter(saved, txs, cur, n) ==
    IF saved THEN Snapshot(txs, cur, n) ELSE storage

\* The lowest idle slot, for a call that suspends.
FreeSlot ==
    CHOOSE s \in TaskSlots :
        tasks[s] = Idle /\ \A u \in TaskSlots : tasks[u] = Idle => s <= u

\* runCurrentTest: runSingleTest on the current test, if there is one.
RunCurrentTest ==
    LET i == CurrentIndex(transactions, currentTransactionId)
        r == runSingleTestStart(transactions, accounts, currentTransactionId)
    IN  /\ (i # 0 /\ r.run # NoRun) => \E s \in TaskSlots : tasks[s] = Idle
        /\ IF i = 0
           THEN UNCHANGED <<transactions, storage, tasks>>
           ELSE /\ transactions' = r.transactions
                /\ storage' = StorageAfter(r.saved, r.transactions,
                                           currentTransactionId,
                                           nextTransactionNumber)
                /\ tasks' = IF r.run = NoRun THEN tasks
                            ELSE [tasks EXCEPT ![FreeSlot] =
                                      [kind |-> "current", run |-> r.run]]
        /\ download' = NoDownload
        /\ UNCHANGED <<currentTransactionId, nextTransactionNumber, nextId,
                       accounts, jsonOutput>>

\* The slots whose run is suspended at the await of op.
Awaiting(op) ==
    {s \in TaskSlots : tasks[s] # Idle /\ tasks[s].run # NoRun
                       /\ tasks[s].run.pc = op}

\* A batch that gives up once a run has returned.
AfterRunStops(task) == Idle

\* The task of slot s once its runSingleTest has returned: runCurrentTest
\* returns too, runAllTests goes on with its loop.
AfterRun(task) ==
    IF task.kind = "current" THEN Idle
    ELSE [task EXCEPT !.run = NoRun, !.pc = "next"]

\* The run calls submitAndWait with the cleaned object.
CallSubmit(run, txObject) ==
    [run EXCEPT !.pc = "submit",
                !.calls = Append(@, "submitAndWait"),
                !.txObject = txObject,
                !.submitted = cleanedTxObject(txObject)]

\* The Account a run without one is given.
AutofillAccount(txObject, address) ==
    IF HasTruthy(txObject, "Account") THEN txObject
    ELSE SetKey(txObject, "Account", address)

\* client.connect() resolved: the wallet is made, Account is filled in, and
\* either the ledger is asked for (no LastLedgerSequence) or the transaction
\* is submitted.
ConnectResolved(s) ==
    /\ s \in Awaiting("connect")
    /\ LET run == tasks[s].run
           txObject == AutofillAccount(run.txObject, run.address)
       IN  tasks' = [tasks EXCEPT ![s].run =
                        IF HasTruthy(txObject, "LastLedgerSequence")
                        THEN CallSubmit(run, txObject)
                        ELSE [run EXCEPT !.pc = "request",
                                         !.calls = Append(@, "request"),
                                         !.txObject = txObject]]
    /\ download' = NoDownload
    /\ UNCHANGED <<transactions, currentTransactionId, nextTransactionNumber,
                   nextId, accounts, storage, jsonOutput>>

\* The ledger request resolved with a validated ledger index.
RequestResolved(s, ledgerIndex) ==
    /\ s \in Awaiting("request")
    /\ LET run == tasks[s].run
       IN  tasks' = [tasks EXCEPT ![s].run =
                        CallSubmit(run,
                            SetKey(run.txObject, "LastLedgerSequence",
                                   Num(ledgerIndex + LastLedgerOffset)))]
    /\ download' = NoDownload
    /\ UNCHANGED <<transactions, currentTransactionId, nextTransactionNumber,
                   nextId, accounts, storage, jsonOutput>>

\* submitAndWait resolved with a response: the run goes on to disconnect.
SubmitResolved(s, code, hash) ==
    /\ s \in Awaiting("submit")
    /\ tasks' = [tasks EXCEPT ![s].run =
                    [@ EXCEPT !.pc = "disconnect",
                              !.calls = Append(@, "disconnect"),
                              !.result = [TransactionResult |-> Str(code),
                                          hash |-> Sym(hash)]]]
    /\ download' = NoDownload
    /\ UNCHANGED <<transactions, currentTransactionId, nextTransactionNumber,
                   nextId, accounts, storage, jsonOutput>>

\* The grade that ignores the expected result.
GradeAlwaysPassed(txs, id, actualResult) ==
    updateTransactionStatus(txs, id, "passed", actualResult)

\* A grade that, finding no test of that id, fails the first test of the
\* registry instead.
GradeOnFirst(txs, id, actualResult) ==
    LET i == FindIndex(txs, id)
    IN  IF i = 0
        THEN IF txs = <<>> THEN txs
             ELSE updateTransactionStatus(txs, txs[1].id, "failed",
                                          actualResult)
        ELSE updateTransactionStatus(txs, id,
                 IF actualResult = txs[i].expectedResult
                 THEN "passed" ELSE "failed",
                 actualResult)

\* The grade of an actual result against the test's expected result, through
\* updateTransactionStatus.
Grade(txs, id, actualResult) ==
    LET i == FindIndex(txs, id)
    IN  IF i = 0 THEN txs
        ELSE updateTransactionStatus(txs, id,
                 IF actualResult = txs[i].expectedResult
                 THEN "passed" ELSE "failed",
                 actualResult)

\* The registry after the response was recorded on the test of the run (the
\* test object the run holds is the registry's as long as its id is there).
RecordResponse(txs, run) ==
    LET i == FindIndex(txs, run.id)
        recorded ==
            IF i = 0 THEN txs
            ELSE SetTest(txs, i,
                     [txs[i] EXCEPT
                          !.actualResult = run.result.TransactionResult,
                          !.hash = run.result.hash,
                          !.submittedAt = TimeAt("response")])
    IN  Grade(recorded, run.id, run.result.TransactionResult)

\* client.disconnect() resolved: the response is recorded and graded, the
\* registry saved, and runSingleTest returns.
DisconnectResolved(s) ==
    /\ s \in Awaiting("disconnect")
    /\ LET txs == RecordResponse(transactions, tasks[s].run)
       IN  /\ transactions' = txs
           /\ storage' = Snapshot(txs, currentTransactionId,
                                  nextTransactionNumber)
    /\ tasks' = [tasks EXCEPT ![s] = AfterRun(@)]
    /\ download' = NoDownload
    /\ UNCHANGED <<currentTransactionId, nextTransactionNumber, nextId,
                   accounts, jsonOutput>>

\* A catch block that drops a message it finds no code in.
CaughtResultDropsText(message) ==
    IF resultCodeMatch(message) # NoMatch
    THEN resultCodeMatch(message)
    ELSE Str(<<>>)

\* The actual result the catch block reads from an error message.
CaughtResult(message) ==
    IF resultCodeMatch(message) # NoMatch
    THEN resultCodeMatch(message)
    ELSE Str(message)

\* The registry after the catch block of runSingleTest.
Caught(txs, run, message) ==
    LET i == FindIndex(txs, run.id)
        actualResult == CaughtResult(message)
        recorded ==
            IF i = 0 THEN txs
            ELSE SetTest(txs, i,
                     [txs[i] EXCEPT !.actualResult = actualResult])
    IN  Grade(recorded, run.id, actualResult)

\* connect, the ledger request or submitAndWait rejected with an error of
\* that message: the catch block grades the test and saves.
Rejected(s, message) ==
    /\ s \in Awaiting("connect") \cup Awaiting("request") \cup Awaiting("submit")
    /\ LET txs == Caught(transactions, tasks[s].run, message)
       IN  /\ transactions' = txs
           /\ storage' = Snapshot(txs, currentTransactionId,
                                  nextTransactionNumber)
    /\ tasks' = [tasks EXCEPT ![s] = AfterRun(@)]
    /\ download' = NoDownload
    /\ UNCHANGED <<currentTransactionId, nextTransactionNumber, nextId,
                   accounts, jsonOutput>>

\* connect, the ledger request or submitAndWait rejected with a value that
\* has no message (error.message is undefined): error.message.match throws a
\* TypeError inside the catch block, so runSingleTest rejects without having
\* touched the test or saved, and the caller awaiting it (runCurrentTest, or
\* runAllTests in its loop) rejects with it.
RejectedWithoutMessage(s) ==
    /\ s \in Awaiting("connect") \cup Awaiting("request") \cup Awaiting("submit")
    /\ tasks' = [tasks EXCEPT ![s] = Idle]
    /\ download' = NoDownload
    /\ UNCHANGED <<transactions, currentTransactionId, nextTransactionNumber,
                   nextId, accounts, storage, jsonOutput>>

\* ------------------------------------------- the runner of the older copy

\* buildTransactionObjectFromTest of the older copy: every block's value goes
\* through JSON.parse and is kept as it is when that throws.
RECURSIVE LegacyFromTestBlocks(_, _)
LegacyFromTestBlocks(txObject, blocks) ==
    IF blocks = <<>> THEN txObject
    ELSE LET block == Head(blocks)
             parsed == IF IsStr(block.value) THEN JSONParse(block.value.str)
                       ELSE [ok |-> IsNull(block.value), val |-> JsNull]
         IN  LegacyFromTestBlocks(
                 SetKey(txObject, block.fieldName,
                        IF parsed.ok THEN parsed.val ELSE block.value),
                 Tail(blocks))

legacyBuildTransactionObjectFromTest(transaction) ==
    LegacyFromTestBlocks([TransactionType |-> transaction.type],
                         transaction.blocks)

\* runSingleTest of the older copy up to its first await.
legacyRunSingleTestStart(txs, accs, transactionId) ==
    LET r == runSingleTestStart(txs, accs, transactionId)
    IN  IF r.run = NoRun THEN r
        ELSE [r EXCEPT !.run.txObject =
                 legacyBuildTransactionObjectFromTest(
                     txs[FindIndex(txs, transactionId)])]

\* runCurrentTest of the older copy.
LegacyRunCurrentTest ==
    LET i == CurrentIndex(transactions, currentTransactionId)
        r == legacyRunSingleTestStart(transactions, accounts,
                                      currentTransactionId)
    IN  /\ (i # 0 /\ r.run # NoRun) => \E s \in TaskSlots : tasks[s] = Idle
        /\ IF i = 0
           THEN UNCHANGED <<transactions, storage, tasks>>
           ELSE /\ transactions' = r.transactions
                /\ storage' = StorageAfter(r.saved, r.transactions,
                                           currentTransactionId,
                                           nextTransactionNumber)
                /\ tasks' = IF r.run = NoRun THEN tasks
                            ELSE [tasks EXCEPT ![FreeSlot] =
                                      [kind |-> "current", run |-> r.run]]
        /\ download' = NoDownload
        /\ UNCHANGED <<currentTransactionId, nextTransactionNumber, nextId,
                       accounts, jsonOutput>>

\* client.connect() resolved in the older copy: Account is filled in and the
\* object is submitted as it is.
LegacyConnectResolved(s) ==
    /\ s \in Awaiting("connect")
    /\ LET run == tasks[s].run
           txObject == AutofillAccount(run.txObject, run.address)
       IN  tasks' = [tasks EXCEPT ![s].run =
                        [run EXCEPT !.pc = "submit",
                                    !.calls = Append(@, "submitAndWait"),
                                    !.txObject = txObject,
                                    !.submitted = txObject]]
    /\ download' = NoDownload
    /\ UNCHANGED <<transactions, currentTransactionId, nextTransactionNumber,
                   nextId, accounts, storage, jsonOutput>>

\* The catch block of the older copy: the test fails with error.message.
LegacyRejected(s, message) ==
    /\ s \in Awaiting("connect") \cup Awaiting("submit")
    /\ LET txs == updateTransactionStatus(transactions, tasks[s].run.id,
                                          "failed", Str(message))
       IN  /\ transactions' = txs
           /\ storage' = Snapshot(txs, currentTransactionId,
                                  nextTransactionNumber)
    /\ tasks' = [tasks EXCEPT ![s] = AfterRun(@)]
    /\ download' = NoDownload
    /\ UNCHANGED <<currentTransactionId, nextTransactionNumber, nextId,
                   accounts, jsonOutput>>

\* ---------------------------------------------------- registry handlers

\* handleAddTest: addTransaction(), then updateJSONOutput and
\* saveTestsToStorage.
HandleAddTest ==
    /\ nextId <= MaxTests
    /\ LET txs == Append(transactions,
                         createTransaction(nextId,
                                           TestName(nextTransactionNumber)))
       IN  /\ transactions' = txs
           /\ currentTransactionId' = nextId
           /\ nextTransactionNumber' = nextTransactionNumber + 1
           /\ nextId' = nextId + 1
           /\ jsonOutput' = buildTransactionObject(txs, nextId)
           /\ storage' = Snapshot(txs, nextId, nextTransactionNumber + 1)
    /\ download' = NoDownload
    /\ UNCHANGED <<accounts, tasks>>

\* A removal that leaves the current pointer where it was.
removeTransactionKeepsPointer(txs, cur, id) ==
    [transactions |-> IF FindIndex(txs, id) = 0 THEN txs
                      ELSE RemoveAt(txs, FindIndex(txs, id)),
     current |-> cur]

\* A removal after which the last remaining test is current.
removeTransactionPointsToLast(txs, cur, id) ==
    LET index == FindIndex(txs, id)
        rest == RemoveAt(txs, index)
    IN  IF index = 0 THEN [transactions |-> txs, current |-> cur]
        ELSE [transactions |-> rest,
              current |-> IF cur = id
                          THEN IF Len(rest) > 0 THEN rest[Len(rest)].id
                               ELSE NoId
                          ELSE cur]

\* removeTransaction(id) on a registry and current pointer.
removeTransaction(txs, cur, id) ==
    LET index == FindIndex(txs, id)
        rest == RemoveAt(txs, index)
    IN  IF index = 0 THEN [transactions |-> txs, current |-> cur]
        ELSE [transactions |-> rest,
              current |-> IF cur = id
                          THEN IF Len(rest) > 0 THEN rest[1].id ELSE NoId
                          ELSE cur]

\* The delete button of test id, confirmed: removeTransaction (which saves),
\* then updateJSONOutput.
DeleteTest(id) ==
    /\ id \in Ids(transactions)
    /\ LET r == removeTransaction(transactions, currentTransactionId, id)
       IN  /\ transactions' = r.transactions
           /\ currentTransactionId' = r.current
           /\ storage' = Snapshot(r.transactions, r.current,
                                  nextTransactionNumber)
           /\ jsonOutput' = buildTransactionObject(r.transactions, r.current)
    /\ download' = NoDownload
    /\ UNCHANGED <<nextTransactionNumber, nextId, accounts, tasks>>

\* switchToTransaction(transactionId): the pointer is set, the preview
\* refreshed and the registry saved.
switchToTransaction(transactionId) ==
    /\ currentTransactionId' = transactionId
    /\ jsonOutput' = buildTransactionObject(transactions, transactionId)
    /\ storage' = Snapshot(transactions, transactionId, nextTransactionNumber)
    /\ download' = NoDownload
    /\ UNCHANGED <<transactions, nextTransactionNumber, nextId, accounts,
                   tasks>>

\* A click on the queue item (or its Edit button) of a listed test that is
\* not the current one.
SwitchToTransaction(transactionId) ==
    /\ transactionId \in Ids(transactions)
    /\ transactionId # currentTransactionId
    /\ switchToTransaction(transactionId)

\* A clearWorkspace that keeps the tests and adds the new one after them.
ClearWorkspaceKeepsTests ==
    /\ nextId <= MaxTests
    /\ transactions' = Append(transactions,
                              createTransaction(nextId, TestName(1)))
    /\ currentTransactionId' = nextId
    /\ nextTransactionNumber' = 2
    /\ nextId' = nextId + 1
    /\ jsonOutput' = buildTransactionObject(transactions', nextId)
    /\ tasks' = tasks
    /\ download' = NoDownload
    /\ UNCHANGED <<accounts, storage>>

\* clearWorkspace: the registry is replaced by one new test named 'Test 1',
\* the counter restarts, the preview is refreshed; nothing is saved.  A
\* runAllTests in progress keeps iterating the array it started on.
ClearWorkspace ==
    /\ nextId <= MaxTests
    /\ transactions' = <<createTransaction(nextId, TestName(1))>>
    /\ currentTransactionId' = nextId
    /\ nextTransactionNumber' = 2
    /\ nextId' = nextId + 1
    /\ jsonOutput' = buildTransactionObject(transactions', nextId)
    /\ tasks' = [s \in TaskSlots |->
                    IF /\ tasks[s] # Idle
                       /\ tasks[s].kind = "all"
                       /\ tasks[s].array = "live"
                    THEN [tasks[s] EXCEPT !.array = "old",
                                          !.items = IdList(transactions)]
                    ELSE tasks[s]]
    /\ download' = NoDownload
    /\ UNCHANGED <<accounts, storage>>

\* The page is loaded again: the calls in progress are gone, and the
\* registry is what loadTestsFromStorage reads (the stored records are
\* strings, null and plain objects, which JSON.stringify and JSON.parse give
\* back as they were), or one new test when nothing is stored.  The accounts
\* are saved at every change and so come back as they are.
Reload ==
    /\ IF storage = NoSnapshot
       THEN /\ nextId <= MaxTests
            /\ transactions' = <<createTransaction(nextId, TestName(1))>>
            /\ currentTransactionId' = nextId
            /\ nextTransactionNumber' = 2
            /\ nextId' = nextId + 1
       ELSE /\ transactions' = storage.transactions
            /\ currentTransactionId' =
                   IF storage.currentTransactionId # NoId
                   THEN storage.currentTransactionId
                   ELSE IF Len(storage.transactions) > 0
                        THEN storage.transactions[1].id ELSE NoId
            /\ nextTransactionNumber' = storage.nextTransactionNumber
            /\ nextId' = nextId
    /\ jsonOutput' = buildTransactionObject(transactions',
                                            currentTransactionId')
    /\ tasks' = [s \in TaskSlots |-> Idle]
    /\ download' = NoDownload
    /\ UNCHANGED <<accounts, storage>>

\* ------------------------------------------- the registry functions called

\* addTransaction(): the new test is appended and made current.
CallAddTransaction ==
    /\ nextId <= MaxCalls
    /\ transactions' =
           Append(transactions,
                  createTransaction(nextId, TestName(nextTransactionNumber)))
    /\ currentTransactionId' = nextId
    /\ nextTransactionNumber' = nextTransactionNumber + 1
    /\ nextId' = nextId + 1
    /\ download' = NoDownload
    /\ UNCHANGED <<accounts, storage, jsonOutput, tasks>>

\* removeTransaction(id), for any id: nothing happens when it is not listed,
\* else the test is removed and the registry saved.
CallRemoveTransaction(id) ==
    /\ LET r == removeTransaction(transactions, currentTransactionId, id)
       IN  /\ transactions' = r.transactions
           /\ currentTransactionId' = r.current
           /\ storage' = StorageAfter(id \in Ids(transactions),
                                      r.transactions, r.current,
                                      nextTransactionNumber)
    /\ download' = NoDownload
    /\ UNCHANGED <<nextTransactionNumber, nextId, accounts, jsonOutput, tasks>>

\* switchToTransaction(id), for any id.
CallSwitchToTransaction(transactionId) == switchToTransaction(transactionId)

\* The ids a caller can pass: those given out so far and one never given.
CallIds == 1..(MaxCalls + 1)

\* An expected-result dropdown that sends the test back to pending.
SetExpectedResultResetting(id, code) ==
    LET i == FindIndex(transactions, id)
    IN  /\ i # 0
        /\ transactions[i].expectedResult # Str(code)
        /\ LET txs == SetTest(transactions, i,
                        [transactions[i] EXCEPT !.expectedResult = Str(code),
                                                !.status = "pending"])
           IN  /\ transactions' = txs
               /\ storage' = Snapshot(txs, currentTransactionId,
                                      nextTransactionNumber)
        /\ download' = NoDownload
        /\ UNCHANGED <<currentTransactionId, nextTransactionNumber, nextId,
                       accounts, jsonOutput, tasks>>

\* The expected-result dropdown of test id: sets expectedResult and saves.
SetExpectedResult(id, code) ==
    LET i == FindIndex(transactions, id)
    IN  /\ i # 0
        /\ transactions[i].expectedResult # Str(code)
        /\ LET txs == SetTest(transactions, i,
                        [transactions[i] EXCEPT !.expectedResult = Str(code)])
           IN  /\ transactions' = txs
               /\ storage' = Snapshot(txs, currentTransactionId,
                                      nextTransactionNumber)
        /\ download' = NoDownload
        /\ UNCHANGED <<currentTransactionId, nextTransactionNumber, nextId,
                       accounts, jsonOutput, tasks>>

\* -------------------------------------------------------------- batch run

\* A reset that forgets the result fields.
ResetStatusOnly(txs) ==
    [i \in 1..Len(txs) |-> [txs[i] EXCEPT !.status = "pending"]]

\* A reset that keeps the hash of the run before.
ResetKeepsHash(txs) ==
    [i \in 1..Len(txs) |->
        [txs[i] EXCEPT !.status = "pending", !.actualResult = JsNull,
                       !.submittedAt = JsNull]]

\* The reset at the start of runAllTests.
ResetAll(txs) ==
    [i \in 1..Len(txs) |->
        [txs[i] EXCEPT !.status = "pending", !.actualResult = JsNull,
                       !.hash = JsNull, !.submittedAt = JsNull]]

\* runAllTests up to its loop: every test is reset (nothing is saved) and the
\* call is about to take the first element of the registry.  ran lists the
\* tests the call has found and run so far, started those that were listed
\* when it began.
RunAllTests ==
    /\ \E s \in TaskSlots : tasks[s] = Idle
    /\ transactions' = ResetAll(transactions)
    /\ tasks' = [tasks EXCEPT ![FreeSlot] =
                    [kind |-> "all", pc |-> "next", index |-> 0,
                     array |-> "live", items |-> <<>>, run |-> NoRun,
                     ran |-> <<>>,
                     started |-> [i \in 1..Len(transactions) |->
                                     transactions[i].id]]]
    /\ download' = NoDownload
    /\ UNCHANGED <<currentTransactionId, nextTransactionNumber, nextId,
                   accounts, storage, jsonOutput>>

\* A loop that does not wait for its run.
LoopDoesNotWait(task) == TRUE

\* `await runSingleTest(...)` in the loop of runAllTests: the loop goes on
\* only once the run it started has returned.
LoopResumes(task) == task.pc = "next"

\* One turn of the loop of runAllTests in slot s: the next element of the
\* array is taken and runSingleTest called on its id; when the array is
\* exhausted the summary is shown and the call returns.  After clearWorkspace
\* the loop is on the old array (items), whose tests runSingleTest no longer
\* finds in the registry.
LoopTurn(s) ==
    /\ tasks[s] # Idle
    /\ tasks[s].kind = "all"
    /\ LoopResumes(tasks[s])
    /\ LET task == tasks[s]
           array == IF task.array = "old" THEN task.items
                    ELSE IdList(transactions)
       IN  IF task.index >= Len(array)
           THEN /\ tasks' = [tasks EXCEPT ![s] = Idle]
                /\ UNCHANGED <<transactions, storage>>
           ELSE LET id == array[task.index + 1]
                    r == runSingleTestStart(transactions, accounts, id)
                IN  /\ transactions' = r.transactions
                    /\ storage' = StorageAfter(r.saved, r.transactions,
                                               currentTransactionId,
                                               nextTransactionNumber)
                    /\ tasks' = [tasks EXCEPT ![s] =
                                    [task EXCEPT
                                         !.index = @ + 1,
                                         !.ran = IF id \in Ids(transactions)
                                                 THEN Append(@, id)
                                                 ELSE @,
                                         !.run = r.run,
                                         !.pc = IF r.run = NoRun
                                                THEN "next" ELSE "await"]]
    /\ download' = NoDownload
    /\ UNCHANGED <<currentTransactionId, nextTransactionNumber, nextId,
                   accounts, jsonOutput>>

\* A loop of runAllTests is due to go on: its continuation is a microtask,
\* which runs before any other handler or network event.
LoopPending ==
    \E s \in TaskSlots :
        tasks[s] # Idle /\ tasks[s].kind = "all" /\ tasks[s].pc = "next"

\* ------------------------------------------------------- specifications

\* The tests the builders are applied to: a typed test holding at most
\* MaxBlocks blocks of distinct fields, each with any raw value.  Such a test
\* is what SetTransactionType, AddField and UpdateFieldValue leave behind;
\* the stored snapshot is the one AddField saved last, the values still empty.
BlockLists ==
    {bs \in UNION {[1..k -> [fieldName : FieldNames, value : RawValues]] :
                      k \in 0..MaxBlocks} :
        \A i, j \in 1..Len(bs) : i # j => bs[i].fieldName # bs[j].fieldName}

EmptyValues(blocks) ==
    [k \in 1..Len(blocks) |-> [blocks[k] EXCEPT !.value = Str(<<>>)]]

BuildTest(typeName, blocks) ==
    [createTransaction(1, TestName(1)) EXCEPT
         !.type = Sym(typeName), !.blocks = blocks]

InitBuild ==
    /\ \E typeName \in TypeNames, blocks \in BlockLists :
           /\ transactions = <<BuildTest(typeName, blocks)>>
           /\ storage = Snapshot(<<BuildTest(typeName, EmptyValues(blocks))>>,
                                 1, 2)
           /\ jsonOutput =
                  buildTransactionObject(<<BuildTest(typeName, blocks)>>, 1)
    /\ currentTransactionId = 1
    /\ nextTransactionNumber = 2
    /\ nextId = 2
    /\ accounts = <<>>
    /\ download = NoDownload
    /\ tasks = [s \in TaskSlots |-> Idle]

\* The current test has fewer than MaxBlocks blocks, or one of that field.
RoomFor(fieldName) ==
    LET i == CurrentIndex(transactions, currentTransactionId)
    IN  /\ i # 0
        /\ \/ Len(transactions[i].blocks) < MaxBlocks
           \/ \E k \in 1..Len(transactions[i].blocks) :
                  transactions[i].blocks[k].fieldName = fieldName

\* The builders at work on such a test: the handlers that refresh the
\* preview, and the report export.
NextBuild ==
    \/ \E typeName \in TypeNames : SetTransactionType(typeName)
    \/ \E fieldName \in FieldNames : RoomFor(fieldName) /\ AddField(fieldName)
    \/ \E fieldName \in FieldNames : RemoveFieldBlock(fieldName)
    \/ DownloadTestReportJSON

SpecBuild == InitBuild /\ [][NextBuild]_vars

\* Single runs of the first test: it is given a type and an expected
\* result, accounts come and go, the run button is pressed (again while a
\* run is suspended, too), the test is deleted, and the network answers.
Next ==
    \/ \E typeName \in TypeNames : SetTransactionType(typeName)
    \/ \E code \in ResultCodes : SetExpectedResult(1, code)
    \/ GenerateAccount
    \/ AddAccount
    \/ \E index \in 1..2 : RemoveAccount(index)
    \/ DeleteTest(1)
    \/ RunCurrentTest
    \/ \E s \in TaskSlots : ConnectResolved(s)
    \/ \E s \in TaskSlots, ledgerIndex \in LedgerIndexes :
           RequestResolved(s, ledgerIndex)
    \/ \E s \in TaskSlots, code \in ResultCodes, hash \in Hashes :
           SubmitResolved(s, code, hash)
    \/ \E s \in TaskSlots : DisconnectResolved(s)
    \/ \E s \in TaskSlots, message \in ErrorTexts : Rejected(s, message)

Spec == Init /\ [][Next]_vars

\* Single runs as above, where a network call can also reject with a value
\* that carries no message.
NextThrown ==
    \/ Next
    \/ \E s \in TaskSlots : RejectedWithoutMessage(s)

SpecThrown == Init /\ [][NextThrown]_vars

\* Batch runs: tests are added, given a type, an account is generated, and
\* run-all is pressed while no other call is suspended; the user leaves the
\* registry alone while a batch runs.
NoTask == \A s \in TaskSlots : tasks[s] = Idle

NextBatch ==
    \/ NoTask /\ HandleAddTest
    \/ NoTask /\ \E typeName \in TypeNames : SetTransactionType(typeName)
    \/ NoTask /\ \E id \in 1..(MaxTests + 1), code \in ResultCodes :
                    SetExpectedResult(id, code)
    \/ NoTask /\ GenerateAccount
    \/ NoTask /\ RunAllTests
    \/ \E s \in TaskSlots : LoopTurn(s)
    \/ ~LoopPending /\ \E s \in TaskSlots : ConnectResolved(s)
    \/ ~LoopPending /\ \E s \in TaskSlots, ledgerIndex \in LedgerIndexes :
                           RequestResolved(s, ledgerIndex)
    \/ ~LoopPending /\ \E s \in TaskSlots, code \in ResultCodes, hash \in Hashes :
                           SubmitResolved(s, code, hash)
    \/ ~LoopPending /\ \E s \in TaskSlots : DisconnectResolved(s)
    \/ ~LoopPending /\ \E s \in TaskSlots, message \in ErrorTexts :
                           Rejected(s, message)

SpecBatch == Init /\ [][NextBatch]_vars

\* Single runs of the first test by the older copy of the program.
NextLegacy ==
    \/ \E typeName \in TypeNames : SetTransactionType(typeName)
    \/ \E code \in ResultCodes : SetExpectedResult(1, code)
    \/ GenerateAccount
    \/ AddAccount
    \/ \E index \in 1..2 : RemoveAccount(index)
    \/ LegacyRunCurrentTest
    \/ \E s \in TaskSlots : LegacyConnectResolved(s)
    \/ \E s \in TaskSlots, code \in ResultCodes, hash \in Hashes :
           SubmitResolved(s, code, hash)
    \/ \E s \in TaskSlots : DisconnectResolved(s)
    \/ \E s \in TaskSlots, message \in ErrorTexts : LegacyRejected(s, message)

SpecLegacy == Init /\ [][NextLegacy]_vars

\* The registry at work: tests are added, deleted, selected and given a
\* type, the workspace is cleared, the page is loaded again, and the current
\* test is run, one run at a time and its connection failing, while all
\* that goes on.
NextRegistry ==
    \/ HandleAddTest
    \/ \E id \in 1..MaxTests : DeleteTest(id)
    \/ \E id \in 1..MaxTests : SwitchToTransaction(id)
    \/ ClearWorkspace
    \/ Reload
    \/ \E typeName \in TypeNames : SetTransactionType(typeName)
    \/ GenerateAccount
    \/ NoTask /\ RunCurrentTest
    \/ \E s \in TaskSlots, message \in {MsgTemp} : Rejected(s, message)

SpecRegistry == Init /\ [][NextRegistry]_vars

\* The values typed into the blocks while fields are dropped and removed.
TypedValues == {Str(<<"5">>), SampleIOU}

\* The fields of the first test at work: blocks are dropped on it (fields it
\* has, too), given values and removed.
NextFields ==
    \/ \E typeName \in TypeNames : SetTransactionType(typeName)
    \/ \E fieldName \in FieldNames : AddField(fieldName)
    \/ \E fieldName \in FieldNames, value \in TypedValues :
           UpdateFieldValue(fieldName, value)
    \/ \E fieldName \in FieldNames : RemoveFieldBlock(fieldName)

SpecFields == Init /\ [][NextFields]_vars

\* The states a test is left in by the handlers and the runner: never run
\* (typed or not), run without a type, and run to a response that matched
\* the expected result or did not.
SummaryKinds == {"untyped", "typed", "refused", "passed", "failed"}

SummaryResponse(id, code) ==
    [id |-> id, result |-> [TransactionResult |-> Str(code),
                            hash |-> Sym("HASH")]]

SummaryTest(id, kind) ==
    LET fresh == createTransaction(id, TestName(id))
        typed == [fresh EXCEPT !.type = Sym("Payment")]
        running == updateTransactionStatus(<<typed>>, id, "running", JsNull)
    IN  CASE kind = "untyped" -> fresh
          [] kind = "typed" -> typed
          [] kind = "refused" ->
                 runSingleTestStart(<<fresh>>, <<SignerAccount>>,
                                    id).transactions[1]
          [] kind = "passed" ->
                 RecordResponse(running, SummaryResponse(id, tesSUCCESS))[1]
          [] kind = "failed" ->
                 RecordResponse(running, SummaryResponse(id, tecNO_DST))[1]

\* A registry of one to MaxTests such tests, the first one current, as saved
\* by the last run.
InitSummary ==
    /\ \E n \in 1..MaxTests : \E kinds \in [1..n -> SummaryKinds] :
           /\ transactions = [i \in 1..n |-> SummaryTest(i, kinds[i])]
           /\ nextTransactionNumber = n + 1
           /\ nextId = n + 1
    /\ currentTransactionId = 1
    /\ storage = Snapshot(transactions, currentTransactionId,
                          nextTransactionNumber)
    /\ jsonOutput = buildTransactionObject(transactions, currentTransactionId)
    /\ accounts = <<SignerAccount>>
    /\ download = NoDownload
    /\ tasks = [s \in TaskSlots |-> Idle]

\* Reports are downloaded while tests are selected and deleted.
NextSummary ==
    \/ DownloadTestReportJSON
    \/ \E id \in 1..MaxTests : DeleteTest(id)
    \/ \E id \in 1..MaxTests : SwitchToTransaction(id)

SpecSummary == InitSummary /\ [][NextSummary]_vars

\* Reports are downloaded in both formats while tests are selected and
\* deleted.
NextReports ==
    \/ DownloadTestReportJSON
    \/ DownloadTestReportMarkdown
    \/ \E id \in 1..MaxTests : DeleteTest(id)
    \/ \E id \in 1..MaxTests : SwitchToTransaction(id)

SpecReports == InitSummary /\ [][NextReports]_vars

\* The life of a test's status: tests are added, edited (type, expected
\* result, and the Amount field while the first test of the list is the
\* current one), selected, deleted and run, one by one with the run-current
\* button and all together with run-all, each handler once the call before
\* it has returned.
StatusFields == {"Amount"}
StatusValues == {Str(<<"5">>)}
FirstIsCurrent == CurrentIndex(transactions, currentTransactionId) = 1

NextStatus ==
    \/ NoTask /\ nextId <= MaxLiveTests /\ HandleAddTest
    \/ NoTask /\ \E typeName \in TypeNames : SetTransactionType(typeName)
    \/ NoTask /\ \E id \in 1..MaxTests, code \in ResultCodes :
                    SetExpectedResult(id, code)
    \/ NoTask /\ FirstIsCurrent /\ \E fieldName \in StatusFields :
                                      AddField(fieldName)
    \/ NoTask /\ FirstIsCurrent
              /\ \E fieldName \in StatusFields, value \in StatusValues :
                     UpdateFieldValue(fieldName, value)
    \/ NoTask /\ FirstIsCurrent /\ \E fieldName \in StatusFields :
                                      RemoveFieldBlock(fieldName)
    \/ NoTask /\ \E id \in 1..MaxTests : SwitchToTransaction(id)
    \/ NoTask /\ \E id \in 1..MaxTests : DeleteTest(id)
    \/ NoTask /\ GenerateAccount
    \/ NoTask /\ RunCurrentTest
    \/ NoTask /\ RunAllTests
    \/ \E s \in TaskSlots : LoopTurn(s)
    \/ ~LoopPending /\ \E s \in TaskSlots : ConnectResolved(s)
    \/ ~LoopPending /\ \E s \in TaskSlots, ledgerIndex \in LedgerIndexes :
                           RequestResolved(s, ledgerIndex)
    \/ ~LoopPending /\ \E s \in TaskSlots, hash \in Hashes :
                           SubmitResolved(s, tesSUCCESS, hash)
    \/ ~LoopPending /\ \E s \in TaskSlots : DisconnectResolved(s)
    \/ ~LoopPending /\ \E s \in TaskSlots : Rejected(s, MsgTemp)

SpecStatus == Init /\ [][NextStatus]_vars

\* Batch runs as above where a network call can also reject with a value
\* that carries no message, and where every call in progress goes on: the
\* loop of runAllTests takes its next turn, and each network call of a
\* suspended run eventually resolves or rejects.
NextBatchThrown ==
    \/ NextBatch
    \/ ~LoopPending /\ \E s \in TaskSlots : RejectedWithoutMessage(s)

Progress(s) ==
    \/ LoopTurn(s)
    \/ /\ ~LoopPending
       /\ \/ ConnectResolved(s)
          \/ \E ledgerIndex \in LedgerIndexes : RequestResolved(s, ledgerIndex)
          \/ \E code \in ResultCodes, hash \in Hashes :
                 SubmitResolved(s, code, hash)
          \/ DisconnectResolved(s)
          \/ \E message \in ErrorTexts : Rejected(s, message)
          \/ RejectedWithoutMessage(s)

FairBatchThrown ==
    /\ Init
    /\ [][NextBatchThrown]_vars
    /\ \A s \in TaskSlots : WF_vars(Progress(s))

\* Batches with the workspace cleared under them: tests are added and typed
\* and run-all pressed while nothing else is going on, and the workspace is
\* cleared at any time, while a batch is suspended at the network too.
NextCleared ==
    \/ NoTask /\ nextId <= MaxLiveTests /\ HandleAddTest
    \/ NoTask /\ \E typeName \in TypeNames : SetTransactionType(typeName)
    \/ NoTask /\ GenerateAccount
    \/ NoTask /\ RunAllTests
    \/ ~LoopPending /\ ClearWorkspace
    \/ \E s \in TaskSlots : LoopTurn(s)
    \/ ~LoopPending /\ \E s \in TaskSlots : ConnectResolved(s)
    \/ ~LoopPending /\ \E s \in TaskSlots, ledgerIndex \in LedgerIndexes :
                           RequestResolved(s, ledgerIndex)
    \/ ~LoopPending /\ \E s \in TaskSlots, hash \in Hashes :
                           SubmitResolved(s, tesSUCCESS, hash)
    \/ ~LoopPending /\ \E s \in TaskSlots : DisconnectResolved(s)
    \/ ~LoopPending /\ \E s \in TaskSlots : Rejected(s, MsgTemp)

SpecCleared == Init /\ [][NextCleared]_vars

\* The whole workspace at work: tests are added, typed, selected, deleted
\* and cleared and both run buttons are pressed at any time, while earlier
\* calls are suspended at the network too.  A handler starts only once the
\* loop of runAllTests has gone on (LoopPending).
NextLive ==
    \/ ~LoopPending /\ nextId <= MaxLiveTests /\ HandleAddTest
    \/ ~LoopPending /\ \E typeName \in TypeNames : SetTransactionType(typeName)
    \/ ~LoopPending /\ GenerateAccount
    \/ ~LoopPending /\ \E id \in 1..MaxTests : DeleteTest(id)
    \/ ~LoopPending /\ \E id \in 1..MaxTests : SwitchToTransaction(id)
    \/ ~LoopPending /\ ClearWorkspace
    \/ ~LoopPending /\ RunCurrentTest
    \/ ~LoopPending /\ RunAllTests
    \/ \E s \in TaskSlots : LoopTurn(s)
    \/ ~LoopPending /\ \E s \in TaskSlots : ConnectResolved(s)
    \/ ~LoopPending /\ \E s \in TaskSlots, ledgerIndex \in LedgerIndexes :
                           RequestResolved(s, ledgerIndex)
    \/ ~LoopPending /\ \E s \in TaskSlots, hash \in Hashes :
                           SubmitResolved(s, tesSUCCESS, hash)
    \/ ~LoopPending /\ \E s \in TaskSlots : DisconnectResolved(s)
    \/ ~LoopPending /\ \E s \in TaskSlots : Rejected(s, MsgTemp)

SpecLive == Init /\ [][NextLive]_vars

\* The registry functions called one by one, with listed and unlisted ids.
NextCalls ==
    \/ CallAddTransaction
    \/ \E id \in CallIds : CallRemoveTransaction(id)
    \/ \E id \in CallIds : CallSwitchToTransaction(id)

SpecCalls == Init /\ [][NextCalls]_vars

\* --------------------------------------------------- claims on the runner

\* The statuses of a test that has been graded.
Graded == {"passed", "failed"}

\* The test of the run suspended in slot s is still in the registry.
RunListed(s) == FindIndex(transactions, tasks[s].run.id) # 0

\* The test of the run suspended in slot s, before and after a step.
RunTest(s) == transactions[FindIndex(transactions, tasks[s].run.id)]
RunTestAfter(s) == transactions'[FindIndex(transactions, tasks[s].run.id)]

\* C1: a run of the current test while its type is unset leaves it failed
\* with actualResult "No transaction type", in that one step (so it is never
\* running and submittedAt is not stamped), and suspends no call: connect,
\* request and submitAndWait are not invoked.
C1_UntypedTestFailsOffline ==
    [][\A i \in 1..Len(transactions) :
          (/\ RunCurrentTest
           /\ transactions[i].id = currentTransactionId
           /\ IsNull(transactions[i].type))
          => /\ Len(transactions') = Len(transactions)
             /\ transactions'[i].status = "failed"
             /\ transactions'[i].actualResult = Str(NoTransactionType)
             /\ transactions'[i].submittedAt = transactions[i].submittedAt
             /\ tasks' = tasks]_vars

\* C1 witness: the untyped test has been run and failed for its type.
C1_Witness ==
    /\ Len(transactions) = 1
    /\ IsNull(transactions[1].type)
    /\ transactions[1].status = "failed"
    /\ transactions[1].actualResult = Str(NoTransactionType)
    /\ \A s \in TaskSlots : tasks[s] = Idle

C3_ErrorCodeGraded ==
    [][\A s \in TaskSlots, message \in ErrorTexts :
          (/\ Rejected(s, message) \/ LegacyRejected(s, message)
           /\ MatchStarts(message) # {}
           /\ RunListed(s))
          => /\ RunTestAfter(s).actualResult = resultCodeMatch(message)
             /\ RunTestAfter(s).status =
                    IF resultCodeMatch(message) = RunTest(s).expectedResult
                    THEN "passed" ELSE "failed"]_vars

Batches == {s \in TaskSlots : tasks[s] # Idle /\ tasks[s].kind = "all"}

\* C5: while runAllTests runs, it has run the tests listed at its start up
\* to its position, in that order; the tests before the position are graded,
\* the one at the position is running exactly while its run is suspended
\* (and that is the only run), and the tests after it are as the reset left
\* them.
C5_OneAtATimeInOrder ==
    \A s \in Batches :
        LET task == tasks[s]
        IN  /\ task.index <= Len(task.started)
            /\ task.ran = SubSeq(task.started, 1, task.index)
            /\ \A j \in 1..Len(transactions) :
                  /\ j < task.index => transactions[j].status \in Graded
                  /\ j = task.index =>
                        IF task.run = NoRun
                        THEN transactions[j].status \in Graded
                        ELSE /\ transactions[j].status = "running"
                             /\ task.run.id = transactions[j].id
                  /\ j > task.index =>
                        /\ transactions[j].status = "pending"
                        /\ transactions[j].actualResult = JsNull
                        /\ transactions[j].hash = JsNull
                        /\ transactions[j].submittedAt = JsNull

\* C5 witness: the second test is being submitted after the first one was
\* graded.
C5_Witness ==
    \E s \in Batches :
        /\ tasks[s].index = 2
        /\ tasks[s].run # NoRun
        /\ tasks[s].run.pc = "submit"
        /\ transactions[1].status \in Graded

C7_ResetBeforeFirstRun ==
    [][RunAllTests
       => /\ Len(transactions') = Len(transactions)
          /\ \A i \in 1..Len(transactions) :
                transactions'[i] =
                    [transactions[i] EXCEPT !.status = "pending",
                                            !.actualResult = JsNull,
                                            !.hash = JsNull,
                                            !.submittedAt = JsNull]
          /\ \A s \in TaskSlots :
                tasks'[s] # tasks[s]
                => /\ tasks'[s].index = 0
                   /\ tasks'[s].ran = <<>>
                   /\ tasks'[s].run = NoRun]_vars

\* C7 witness: a batch has reset a test that the last save shows as failed
\* with a result, and has not run any test yet.
C7_Witness ==
    /\ \E s \in Batches : tasks[s].index = 0
    /\ storage # NoSnapshot
    /\ Len(storage.transactions) = Len(transactions)
    /\ storage.transactions[1].status = "failed"
    /\ storage.transactions[1].actualResult # JsNull
    /\ \A i \in 1..Len(transactions) :
          /\ transactions[i].status = "pending"
          /\ transactions[i].actualResult = JsNull
          /\ transactions[i].hash = JsNull
          /\ transactions[i].submittedAt = JsNull

\* C8: a run of the current test while it has a type and no account has a
\* seed leaves it failed with actualResult "No signing account", in that one
\* step (so it is never running and submittedAt is not stamped), and
\* suspends no call: no network operation is invoked.
C8_NoSignerFailsOffline ==
    [][\A i \in 1..Len(transactions) :
          (/\ RunCurrentTest
           /\ transactions[i].id = currentTransactionId
           /\ ~IsNull(transactions[i].type)
           /\ \A k \in 1..Len(accounts) : IsNull(accounts[k].seed))
          => /\ Len(transactions') = Len(transactions)
             /\ transactions'[i].status = "failed"
             /\ transactions'[i].actualResult = Str(NoSigningAccount)
             /\ transactions'[i].submittedAt = transactions[i].submittedAt
             /\ tasks' = tasks]_vars

\* C8 witness: a typed test has been run with only a seedless account
\* listed, and failed for that without a timestamp.
C8_Witness ==
    /\ Len(transactions) = 1
    /\ ~IsNull(transactions[1].type)
    /\ Len(accounts) = 1
    /\ IsNull(accounts[1].seed)
    /\ transactions[1].status = "failed"
    /\ transactions[1].actualResult = Str(NoSigningAccount)
    /\ transactions[1].submittedAt = JsNull

\* ------------------------------------------------- claims on the builders

\* The blocks of test tx that hold a non-empty scalar for a field whose
\* catalog type is in types.
ScalarBlocks(tx, types) ==
    {k \in 1..Len(tx.blocks) :
        /\ IsStr(tx.blocks[k].value)
        /\ tx.blocks[k].value.str # <<>>
        /\ definitions.FIELDS[tx.blocks[k].fieldName] \in types}

\* The tests whose built object some variable holds, each with that object:
\* the current test with the preview, and every test with its report entry.
BuiltObjects ==
    {<<transactions[i], jsonOutput, "preview">> :
        i \in {j \in 1..Len(transactions) :
                  transactions[j].id = currentTransactionId}}
    \cup
    {<<transactions[i], download.tests[i].transaction, "report">> :
        i \in {j \in 1..Len(transactions) : download # NoDownload}}

\* A raw text with something left after trimming; the preview leaves the
\* others out.
NonBlank(text) == Trim(text) # <<>>

\* C9: in the preview and in every report entry, a field of type Amount with
\* a non-empty scalar raw value holds the string equal to the raw text (and so
\* never a number); the report has the key for every such value, the preview
\* for every one that is not blank.
C9_AmountStaysString ==
    \A b \in BuiltObjects :
        \A k \in ScalarBlocks(b[1], {"Amount"}) :
            LET block == b[1].blocks[k]
            IN  /\ (b[3] = "report" \/ NonBlank(block.value.str))
                       => block.fieldName \in DOMAIN b[2]
                /\ block.fieldName \in DOMAIN b[2]
                       => b[2][block.fieldName] = Str(block.value.str)

\* C9 witness: an Amount of "1000000" is in the preview and in a report
\* entry as that string.
C9_Witness ==
    /\ download # NoDownload
    /\ "Amount" \in DOMAIN jsonOutput
    /\ jsonOutput["Amount"] = Str(<<"1", "0", "0", "0", "0", "0", "0">>)
    /\ "Amount" \in DOMAIN download.tests[1].transaction
    /\ download.tests[1].transaction["Amount"] =
           Str(<<"1", "0", "0", "0", "0", "0", "0">>)

\* A base-10 integer literal: an optional sign and digits, white space
\* around them allowed.
IsIntegerLiteral(text) ==
    LET t == Trim(text)
        body == IF t # <<>> /\ Head(t) \in {"-", "+"} THEN Tail(t) ELSE t
    IN  body # <<>> /\ PrefixLen(body, Digits) = Len(body)

IntegerLiteralValue(text) ==
    LET t == Trim(text)
        signed == Head(t) \in {"-", "+"}
        mag == DecimalValue(IF signed THEN Tail(t) ELSE t)
    IN  IF Head(t) = "-" THEN 0 - mag ELSE mag

\* C10: in the preview and in every report entry, a field of type UInt* or
\* Number holds the integer when its raw text is a base-10 integer literal,
\* and the raw text itself, unchanged, when it is not.
C10_NumericOrOriginal ==
    \A b \in BuiltObjects :
        \A k \in ScalarBlocks(b[1], UIntTypes \cup {"Number"}) :
            LET block == b[1].blocks[k]
            IN  block.fieldName \in DOMAIN b[2]
                    => b[2][block.fieldName] =
                          IF IsIntegerLiteral(block.value.str)
                          THEN Num(IntegerLiteralValue(block.value.str))
                          ELSE Str(block.value.str)

\* The blocks of test tx whose raw value is absent, the empty string, or a
\* scalar string that is blank after trimming.
BlankBlocks(tx) ==
    {k \in 1..Len(tx.blocks) :
        \/ Falsy(tx.blocks[k].value)
        \/ IsStr(tx.blocks[k].value) /\ Trim(tx.blocks[k].value.str) = <<>>}

\* C11: in every report entry the object built by
\* buildTransactionObjectFromTest has no key for a field of the test whose
\* raw value is absent, empty, or blank after trimming.
C11_BlankFieldsOmitted ==
    download # NoDownload
    => \A i \in 1..Len(transactions) :
          \A k \in BlankBlocks(transactions[i]) :
              transactions[i].blocks[k].fieldName
                  \notin DOMAIN download.tests[i].transaction

Others(txs, id) ==
    LET Other(tx) == tx.id # id
    IN  SelectSeq(txs, Other)

\* C14: removeTransaction(id) leaves the tests other than id in their
\* order; if id was current, the pointer becomes the first remaining test or
\* none; if id was not current the pointer stays; and for an id that is not
\* listed the registry and the pointer stay as they are.
C14_RemoveKeepsOthersAndPointer ==
    [][\A id \in CallIds :
          CallRemoveTransaction(id)
          => IF id \in Ids(transactions)
             THEN /\ transactions' = Others(transactions, id)
                  /\ Len(transactions') = Len(transactions) - 1
                  /\ currentTransactionId' =
                         IF currentTransactionId # id
                         THEN currentTransactionId
                         ELSE IF Len(transactions') > 0
                              THEN transactions'[1].id ELSE NoId
             ELSE /\ transactions' = transactions
                  /\ currentTransactionId' = currentTransactionId]_vars

\* C14 witness: every test made has been removed, the current one last, and
\* the pointer is none.
C14_Witness ==
    /\ transactions = <<>>
    /\ currentTransactionId = NoId
    /\ nextId = MaxCalls + 1

\* C16: switchToTransaction(id) for an id that is not listed leaves the
\* current pointer as it was.
C16_SwitchToUnlistedIsNoOp ==
    [][\A id \in CallIds :
          (CallSwitchToTransaction(id) /\ id \notin Ids(transactions))
          => currentTransactionId' = currentTransactionId]_vars

\* C15: the current pointer is none or the id of a listed test, and no two
\* listed tests have the same id, so at most one test is current.
C15_CurrentIsListed ==
    /\ currentTransactionId = NoId \/ currentTransactionId \in Ids(transactions)
    /\ \A i, j \in 1..Len(transactions) :
          transactions[i].id = transactions[j].id => i = j

\* C15 witness: a test was deleted while its run was in flight, and
\* another test is current.
C15_Witness ==
    /\ \E s \in TaskSlots :
          /\ tasks[s] # Idle
          /\ tasks[s].run # NoRun
          /\ tasks[s].run.id \notin Ids(transactions)
    /\ currentTransactionId \in Ids(transactions)

\* C17: handleAddTest, through addTransaction, appends one test with a new
\* id in the initial state (status pending, expectedResult tesSUCCESS, no
\* type, no fields, no results), makes it current, and leaves the tests
\* already listed as they were.
C17_AddAppendsFreshTest ==
    [][HandleAddTest
       => LET n == Len(transactions)
          IN  /\ Len(transactions') = n + 1
              /\ SubSeq(transactions', 1, n) = transactions
              /\ transactions'[n + 1].id \notin Ids(transactions)
              /\ transactions'[n + 1].status = "pending"
              /\ transactions'[n + 1].expectedResult = Str(tesSUCCESS)
              /\ transactions'[n + 1].type = JsNull
              /\ transactions'[n + 1].blocks = <<>>
              /\ transactions'[n + 1].actualResult = JsNull
              /\ transactions'[n + 1].hash = JsNull
              /\ transactions'[n + 1].submittedAt = JsNull
              /\ currentTransactionId' = transactions'[n + 1].id]_vars

\* C17 witness: a new test is current behind a typed test that has failed.
C17_Witness ==
    /\ Len(transactions) = 2
    /\ transactions[1].status = "failed"
    /\ ~IsNull(transactions[1].type)
    /\ transactions[2] = createTransaction(transactions[2].id,
                                           transactions[2].name)
    /\ currentTransactionId = transactions[2].id
    /\ storage # NoSnapshot
    /\ storage.transactions = transactions

\* C18: the counter nextTransactionNumber never decreases, and a test made
\* by handleAddTest is named after the counter, which then goes up; so no
\* number is used for two default names.
C18_CounterNeverReused ==
    [][/\ nextTransactionNumber' >= nextTransactionNumber
       /\ HandleAddTest
          => /\ transactions'[Len(transactions')].name =
                    TestName(nextTransactionNumber)
             /\ nextTransactionNumber' > nextTransactionNumber]_vars

\* No two blocks of a test of txs have the same field name.
DistinctFieldNames(txs) ==
    \A i \in 1..Len(txs) :
        \A k, l \in 1..Len(txs[i].blocks) :
            txs[i].blocks[k].fieldName = txs[i].blocks[l].fieldName => k = l

\* The current test has a block of that field.
CurrentHasField(fieldName) ==
    LET i == CurrentIndex(transactions, currentTransactionId)
    IN  /\ i # 0
        /\ \E k \in 1..Len(transactions[i].blocks) :
               transactions[i].blocks[k].fieldName = fieldName

\* C19: a field block dropped on the current test for a field it already has
\* leaves the registry, and so that test's blocks and their values, as they
\* were; and the field names of the blocks of a test are pairwise distinct
\* in every state.
C19_NoDuplicateField ==
    [][/\ \A fieldName \in FieldNames :
             (AddField(fieldName) /\ CurrentHasField(fieldName))
             => transactions' = transactions
       /\ DistinctFieldNames(transactions)
       /\ DistinctFieldNames(transactions')]_vars

\* C19 witness: the test has a block of every field of the catalog, so the
\* last drop was for a field it had; the first block holds a value, and the
\* registry was saved since that value was typed.
C19_Witness ==
    /\ Len(transactions) = 1
    /\ Len(transactions[1].blocks) = Cardinality(FieldNames)
    /\ transactions[1].blocks[1].value = Str(<<"5">>)
    /\ transactions[1].blocks[2].value = SampleIOU
    /\ transactions[1].blocks[3].value = Str(<<"5">>)
    /\ storage # NoSnapshot
    /\ storage.transactions = transactions

\* ------------------------------------------------- claims on the reports

\* The built object has the key TransactionType with the type of the test.
HasTypeKey(obj, transaction) ==
    /\ "TransactionType" \in DOMAIN obj
    /\ obj["TransactionType"] = transaction.type

\* C12: the object built for a test has the key TransactionType (with the
\* test's type) exactly when the type is set, in the preview of the current
\* test and in every entry of a downloaded report; for a test whose type is
\* unset the key is absent.
C12_TypeKeyExactlyWhenTyped ==
    /\ LET i == CurrentIndex(transactions, currentTransactionId)
       IN  i # 0 =>
               IF TypeUnset(transactions[i])
               THEN "TransactionType" \notin DOMAIN jsonOutput
               ELSE HasTypeKey(jsonOutput, transactions[i])
    /\ download # NoDownload =>
           \A i \in 1..Len(transactions) :
               IF TypeUnset(transactions[i])
               THEN "TransactionType" \notin
                        DOMAIN download.tests[i].transaction
               ELSE HasTypeKey(download.tests[i].transaction, transactions[i])

\* C20: the statistics of a downloaded report and of the summary panel take
\* total as the number of tests of the registry, passed and failed as the
\* numbers of tests with those statuses, which together never exceed total,
\* and the pass rate as the integer nearest to 100 * passed / total (halves
\* upwards), 0 for an empty registry.
NearestPercent(rate, passed, total) ==
    IF total = 0 THEN rate = Percent(0)
    ELSE \E r \in 0..100 :
             /\ rate = Percent(r)
             /\ 2 * (r * total - 100 * passed) > -total
             /\ 2 * (r * total - 100 * passed) <= total

C20_SummaryStatistics ==
    LET total == Len(transactions)
        passed == Cardinality({i \in 1..total :
                                  transactions[i].status = "passed"})
        failed == Cardinality({i \in 1..total :
                                  transactions[i].status = "failed"})
        panel == renderTestResultsSummary(transactions)
    IN  /\ passed + failed <= total
        /\ download # NoDownload =>
               /\ download.metadata.totalTests = total
               /\ download.metadata.passed = passed
               /\ download.metadata.failed = failed
               /\ NearestPercent(download.metadata.passRate, passed, total)
        /\ panel # SummaryHidden =>
               /\ panel.total = total
               /\ panel.passed = passed
               /\ panel.failed = failed
               /\ NearestPercent(panel.passRate, passed, total)

\* C20 witness: a report of three tests of which two passed and one was
\* never run gives 67%.
C20_Witness ==
    /\ download # NoDownload
    /\ Len(transactions) = 3
    /\ download.metadata.passed = 2
    /\ download.metadata.failed = 0
    /\ download.metadata.passRate = Percent(67)
    /\ renderTestResultsSummary(transactions).passRate = Percent(67)

\* The names of the tests a listing has an entry for.
ListedNames(listing) == {listing[k].name : k \in 1..Len(listing)}

\* C21: the details of the results summary and of a downloaded report, in
\* either format, hold an entry for a test exactly when the test has passed
\* or failed; the total counts every test.
C21_ListingsHoldRunTestsOnly ==
    LET ran == {transactions[i].name :
                   i \in {j \in 1..Len(transactions) :
                              HasResult(transactions[j])}}
    IN  /\ ListedNames(SummaryDetails(transactions)) = ran
        /\ download # NoDownload =>
               /\ ListedNames(download.tests) = ran
               /\ download.metadata.totalTests = Len(transactions)

\* --------------------------------------------- claims on the life of a test

\* C22: a test that has passed or failed is pending after a step only if
\* the step is the reset at the start of runAllTests, which leaves its
\* actualResult, hash and submittedAt null; no run of a test, edit, switch
\* or removal of another test sends a test back to pending.
C22_PendingOnlyByReset ==
    [][\A i \in 1..Len(transactions), j \in 1..Len(transactions') :
          (/\ transactions'[j].id = transactions[i].id
           /\ HasResult(transactions[i])
           /\ transactions'[j].status = "pending")
          => /\ RunAllTests
             /\ transactions'[j].actualResult = JsNull
             /\ transactions'[j].hash = JsNull
             /\ transactions'[j].submittedAt = JsNull]_vars

\* C22 witness: the first test passed with a hash, as the last save shows,
\* kept that status while a field was dropped on it, and is pending with
\* null results now that a batch has started.
C22_Witness ==
    /\ \E s \in Batches : tasks[s].index = 0
    /\ storage # NoSnapshot
    /\ Len(storage.transactions) = 2
    /\ Len(transactions) = 2
    /\ storage.transactions[1].status = "passed"
    /\ storage.transactions[1].hash # JsNull
    /\ storage.transactions[1].blocks # <<>>
    /\ storage.transactions[2].status = "failed"
    /\ transactions[1].status = "pending"
    /\ transactions[1].hash = JsNull
    /\ transactions[2].status = "pending"

\* C23: clearWorkspace leaves exactly one test, which was not listed
\* before, in the initial state (named 'Test 1', pending, no type, no
\* blocks, expecting tesSUCCESS, null actualResult, hash and submittedAt),
\* and it is the current test.
C23_ClearLeavesOneFreshTest ==
    [][ClearWorkspace
       => /\ Len(transactions') = 1
          /\ transactions'[1].id \notin Ids(transactions)
          /\ transactions'[1].name = TestName(1)
          /\ transactions'[1].status = "pending"
          /\ transactions'[1].type = JsNull
          /\ transactions'[1].blocks = <<>>
          /\ transactions'[1].expectedResult = Str(tesSUCCESS)
          /\ transactions'[1].actualResult = JsNull
          /\ transactions'[1].hash = JsNull
          /\ transactions'[1].submittedAt = JsNull
          /\ currentTransactionId' = transactions'[1].id]_vars

\* C23 witness: two tests, one typed and run to failure, were saved, and
\* the workspace was cleared since: the one test listed is a third one.
C23_Witness ==
    /\ storage # NoSnapshot
    /\ Ids(storage.transactions) = {1, 2}
    /\ \E i \in 1..2 : /\ storage.transactions[i].status = "failed"
                        /\ storage.transactions[i].type # JsNull
    /\ Len(transactions) = 1
    /\ transactions[1].id = 3
    /\ transactions[1] = createTransaction(3, TestName(1))
    /\ currentTransactionId = 3

\* C24: after each handler that changes the registry (add, delete, switch,
\* set type, clear workspace) the stored snapshot holds the tests, the
\* current pointer and the name counter as they are in memory.
C24_SnapshotFollowsRegistry ==
    [][(\/ HandleAddTest
        \/ \E id \in 1..MaxTests : DeleteTest(id)
        \/ \E id \in 1..MaxTests : SwitchToTransaction(id)
        \/ \E typeName \in TypeNames : SetTransactionType(typeName)
        \/ ClearWorkspace)
       => storage' = [transactions |-> transactions',
                      currentTransactionId |-> currentTransactionId',
                      nextTransactionNumber |-> nextTransactionNumber']]_vars

\* C25: a call of runSingleTest with an id that is not in the registry (the
\* loop of runAllTests going on over the array it started on, after the
\* workspace was cleared) changes no test, nor the current pointer or the
\* name counter, saves nothing and suspends at no network call.
C25_UnlistedRunChangesNothing ==
    [][\A s \in TaskSlots :
          (/\ LoopTurn(s)
           /\ tasks[s].array = "old"
           /\ tasks[s].index < Len(tasks[s].items)
           /\ tasks[s].items[tasks[s].index + 1] \notin Ids(transactions))
          => /\ UNCHANGED <<transactions, currentTransactionId,
                            nextTransactionNumber, storage>>
             /\ tasks'[s].run = NoRun
             /\ tasks'[s].pc = "next"
             /\ tasks'[s].ran = tasks[s].ran
             /\ \A u \in TaskSlots \ {s} : tasks'[u] = tasks[u]]_vars

\* C25 witness: a batch over tests 1 and 2 ran test 1, the workspace was
\* cleared, and the batch has since called runSingleTest for test 2 and not
\* found it; the registry is the one new test.
C25_Witness ==
    /\ \E s \in Batches :
           /\ tasks[s].array = "old"
           /\ tasks[s].items = <<1, 2>>
           /\ tasks[s].index = 2
           /\ tasks[s].ran = <<1>>
    /\ Ids(transactions) = {3}
    /\ transactions[1] = createTransaction(3, TestName(1))

\* The run of slot s returns or throws in this step.
RunEnds(s) ==
    /\ tasks[s] # Idle
    /\ tasks[s].run # NoRun
    /\ \/ tasks'[s] = Idle
       \/ tasks'[s].run = NoRun

\* C26: every test that has passed or failed has an actualResult that is
\* not null, and every step in which a run ends (the response recorded, or a
\* rejection caught, whatever was thrown) leaves the test of the run, if it
\* is still listed, passed or failed with its actualResult set and the
\* registry saved as it is.
C26_EveryEndSetsActualResult ==
    [][/\ \A j \in 1..Len(transactions') :
             HasResult(transactions'[j])
             => transactions'[j].actualResult # JsNull
       /\ \A s \in TaskSlots :
             RunEnds(s)
             => /\ \A j \in 1..Len(transactions') :
                      transactions'[j].id = tasks[s].run.id
                      => /\ HasResult(transactions'[j])
                         /\ transactions'[j].actualResult # JsNull
                /\ storage' = Snapshot(transactions', currentTransactionId',
                                       nextTransactionNumber')]_vars

\* ------------------------------------------ claims on calls in progress

\* C27: a step sets a test to running only if it was pending, failed or
\* passed before, never if it was running (no second run starts for a test
\* whose run is suspended), and a step leaves a test passed only if it was
\* running before.
C27_RunningOnlyFromSettled ==
    [][\A i \in 1..Len(transactions), j \in 1..Len(transactions') :
          transactions'[j].id = transactions[i].id
          => /\ (\E s \in TaskSlots :
                    /\ tasks'[s] # tasks[s]
                    /\ tasks'[s] # Idle
                    /\ tasks'[s].run # NoRun
                    /\ tasks'[s].run.pc = "connect"
                    /\ tasks'[s].run.id = transactions[i].id)
                => transactions[i].status # "running"
             /\ (/\ transactions'[j].status = "passed"
                 /\ transactions'[j] # transactions[i])
                => transactions[i].status = "running"]_vars

\* C28: at most one test is running and at most one call is suspended at
\* the network.
C28_OneRunAtATime ==
    /\ Cardinality({i \in 1..Len(transactions) :
                       transactions[i].status = "running"}) <= 1
    /\ Cardinality({s \in TaskSlots :
                       tasks[s] # Idle /\ tasks[s].run # NoRun}) <= 1

\* C29: when a call of runAllTests returns, the tests it has run are the
\* tests that were listed when it started, each once and in that order,
\* whatever was added, deleted or cleared while it was suspended.
C29_BatchRunsTheTestsItStartedWith ==
    [][\A s \in TaskSlots :
          (/\ LoopTurn(s)
           /\ tasks'[s] = Idle)
          => tasks[s].ran = tasks[s].started]_vars

\* The test of that id is running.
Running(id) ==
    \E i \in 1..Len(transactions) :
        transactions[i].id = id /\ transactions[i].status = "running"

\* The test of that id has passed or failed, or is no longer listed.
Settled(id) ==
    \A i \in 1..Len(transactions) :
        transactions[i].id = id => HasResult(transactions[i])

\* C30: every test that is running eventually has passed or failed (or has
\* left the registry), and every call of runAllTests eventually returns.
C30_RunsAndBatchesEnd ==
    /\ \A id \in 1..MaxTests : Running(id) ~> Settled(id)
    /\ \A s \in TaskSlots :
          (tasks[s] # Idle /\ tasks[s].kind = "all") ~> (tasks[s] = Idle)

\* ------------------------------------------------ claims on a single run

\* The network calls a run has made include that one.
HasCalled(run, call) == \E k \in 1..Len(run.calls) : run.calls[k] = call

\* C31: a run whose client has connected (it is past client.connect()) ends
\* only after it has called client.disconnect(), when the response came as
\* when the ledger request or submitAndWait threw.
C31_DisconnectsBeforeItEnds ==
    [][\A s \in TaskSlots :
          (/\ RunEnds(s)
           /\ tasks[s].run.pc # "connect")
          => HasCalled(tasks[s].run, "disconnect")]_vars

\* C32: when runSingleTest returns without a response from submitAndWait
\* (it failed the test for a missing type or signing account, or caught a
\* rejection), the test's hash is null.
C32_HashOnlyFromThisRun ==
    [][\A i \in 1..Len(transactions) :
          (\/ /\ RunCurrentTest
              /\ tasks' = tasks
              /\ transactions[i].id = currentTransactionId
           \/ \E s \in TaskSlots, message \in ErrorTexts :
                  /\ Rejected(s, message)
                  /\ tasks[s].run.id = transactions[i].id)
          => /\ Len(transactions') = Len(transactions)
             /\ HasResult(transactions'[i])
             /\ transactions'[i].hash = JsNull]_vars

\* C33: submittedAt is stamped in the step that sets the test running and
\* is not changed by the later steps of that run: the step that records the
\* response, like the step that catches a rejection, leaves it as it was.
C33_SubmittedAtStampedOnce ==
    [][\A s \in TaskSlots, i \in 1..Len(transactions) :
          (/\ RunEnds(s)
           /\ tasks[s].run.id = transactions[i].id)
          => /\ Len(transactions') = Len(transactions)
             /\ transactions'[i].submittedAt = transactions[i].submittedAt]_vars

\* Runs of a test that holds blocks: the first test is typed and holds at
\* most MaxBlocks blocks with any raw value, an account is generated, and the
\* test is run, one run at a time, while the network answers.
NextSubmit ==
    \/ GenerateAccount
    \/ NoTask /\ RunCurrentTest
    \/ \E s \in TaskSlots : ConnectResolved(s)
    \/ \E s \in TaskSlots, ledgerIndex \in LedgerIndexes :
           RequestResolved(s, ledgerIndex)
    \/ \E s \in TaskSlots, code \in ResultCodes, hash \in Hashes :
           SubmitResolved(s, code, hash)
    \/ \E s \in TaskSlots : DisconnectResolved(s)
    \/ \E s \in TaskSlots, message \in ErrorTexts : Rejected(s, message)

SpecSubmit == InitBuild /\ [][NextSubmit]_vars

\* The slots whose run has called submitAndWait.
Submitting ==
    {s \in TaskSlots : tasks[s] # Idle /\ tasks[s].run # NoRun
                       /\ tasks[s].run.submitted # NotSubmitted}

\* The object built from the test of the run in slot s (no block of the test
\* changes while the run is suspended).
BuiltFor(s) == buildTransactionObjectFromTest(RunTest(s))

\* C34: the object passed to submitAndWait has an Account, the one built
\* from the test if there is one and the wallet address otherwise, and a
\* LastLedgerSequence, the one built from the test if there is one and the
\* ledger index plus LastLedgerOffset otherwise, and no key whose value is
\* null or ''.
C34_SubmittedObjectComplete ==
    \A s \in Submitting :
        LET submitted == tasks[s].run.submitted
            built == BuiltFor(s)
        IN  /\ "Account" \in DOMAIN submitted
            /\ "LastLedgerSequence" \in DOMAIN submitted
            /\ \A k \in DOMAIN submitted :
                   submitted[k] # JsNull /\ submitted[k] # Str(<<>>)
            /\ submitted["Account"] =
                   IF "Account" \in DOMAIN built THEN built["Account"]
                   ELSE tasks[s].run.address
            /\ submitted["LastLedgerSequence"] \in
                   IF "LastLedgerSequence" \in DOMAIN built
                   THEN {built["LastLedgerSequence"]}
                   ELSE {Num(n + LastLedgerOffset) : n \in LedgerIndexes}

\* C35: the object the preview builds for the current test equals the
\* object buildTransactionObjectFromTest builds for that test, whatever its
\* type and blocks.
C35_PreviewEqualsRunObject ==
    \A i \in 1..Len(transactions) :
        transactions[i].id = currentTransactionId
        => buildTransactionObject(transactions, currentTransactionId)
               = buildTransactionObjectFromTest(transactions[i])

\* C36: a passed test's actualResult equals its expectedResult and a failed
\* test's differs from it, also after the expected result of a graded test
\* or of a test in flight was changed.
C36_GradeAgreesWithExpected ==
    \A i \in 1..Len(transactions) :
        /\ transactions[i].status = "passed"
               => transactions[i].actualResult = transactions[i].expectedResult
        /\ transactions[i].status = "failed"
               => transactions[i].actualResult # transactions[i].expectedResult

\* Runs on top of runs: tests are added, typed and given an expected
\* result, and both run buttons are pressed at any time, while earlier calls
\* are suspended at the network too (a second run-all while the first is in
\* flight, a run-all under a run of the current test).  No test is removed.
NextPending ==
    \/ ~LoopPending /\ nextId <= MaxLiveTests /\ HandleAddTest
    \/ ~LoopPending /\ \E typeName \in TypeNames : SetTransactionType(typeName)
    \/ ~LoopPending /\ SetExpectedResult(1, tecNO_DST)
    \/ ~LoopPending /\ GenerateAccount
    \/ ~LoopPending /\ RunCurrentTest
    \/ ~LoopPending /\ RunAllTests
    \/ \E s \in TaskSlots : LoopTurn(s)
    \/ ~LoopPending /\ \E s \in TaskSlots : ConnectResolved(s)
    \/ ~LoopPending /\ \E s \in TaskSlots, ledgerIndex \in LedgerIndexes :
                           RequestResolved(s, ledgerIndex)
    \/ ~LoopPending /\ \E s \in TaskSlots, hash \in Hashes :
                           SubmitResolved(s, tesSUCCESS, hash)
    \/ ~LoopPending /\ \E s \in TaskSlots : DisconnectResolved(s)
    \/ ~LoopPending /\ \E s \in TaskSlots : Rejected(s, MsgTemp)

SpecPending == Init /\ [][NextPending]_vars


\* C37: every pending test has actualResult, hash and submittedAt null,
\* whatever the interleaving of adding tests, edits, run-current and run-all
\* (a run-all pressed while a run is in flight included).
C37_PendingHasNoResult ==
    \A i \in 1..Len(transactions) :
        transactions[i].status = "pending"
        => /\ transactions[i].actualResult = JsNull
           /\ transactions[i].hash = JsNull
           /\ transactions[i].submittedAt = JsNull

\* A test that got a response before is pending again, reset by a run-all
\* pressed while a run of that test was suspended at submitAndWait.
C37_Witness ==
    \E s \in Awaiting("submit"), u \in TaskSlots, i \in 1..Len(transactions) :
        /\ tasks[s].run.id = transactions[i].id
        /\ transactions[i].status = "pending"
        /\ tasks[u] # Idle
        /\ tasks[u].kind = "all"
        /\ u # s
        /\ storage # NoSnapshot
        /\ \E j \in 1..Len(storage.transactions) :
               /\ storage.transactions[j].id = transactions[i].id
               /\ storage.transactions[j].hash # JsNull

\* Runs whose test is removed under them: tests are added and typed and a
\* run button pressed while nothing else is going on, and a test is deleted
\* or the workspace cleared at any time, while a run is suspended at the
\* network too.
NextOrphan ==
    \/ NoTask /\ nextId <= MaxLiveTests /\ HandleAddTest
    \/ NoTask /\ \E typeName \in TypeNames : SetTransactionType(typeName)
    \/ NoTask /\ GenerateAccount
    \/ NoTask /\ RunCurrentTest
    \/ NoTask /\ RunAllTests
    \/ ~LoopPending /\ \E id \in 1..MaxTests : DeleteTest(id)
    \/ ~LoopPending /\ ClearWorkspace
    \/ \E s \in TaskSlots : LoopTurn(s)
    \/ ~LoopPending /\ \E s \in TaskSlots : ConnectResolved(s)
    \/ ~LoopPending /\ \E s \in TaskSlots, ledgerIndex \in LedgerIndexes :
                           RequestResolved(s, ledgerIndex)
    \/ ~LoopPending /\ \E s \in TaskSlots, hash \in Hashes :
                           SubmitResolved(s, tesSUCCESS, hash)
    \/ ~LoopPending /\ \E s \in TaskSlots : DisconnectResolved(s)
    \/ ~LoopPending /\ \E s \in TaskSlots : Rejected(s, MsgTemp)

SpecOrphan == Init /\ [][NextOrphan]_vars

\* C38: when the run suspended in a slot ends (its response is recorded or
\* its rejection caught) and its test is no longer in the registry, deleted
\* or cleared away meanwhile, the step changes no test of the registry, so
\* the removed test does not come back, and leaves the current pointer.
C38_OrphanRunTouchesNothing ==
    [][\A s \in TaskSlots :
          (/\ RunEnds(s)
           /\ ~RunListed(s))
          => /\ transactions' = transactions
             /\ currentTransactionId' = currentTransactionId]_vars

\* A batch whose workspace was cleared under it has had a run end since:
\* the loop is due on the old array, and the registry in storage, which
\* clearWorkspace does not save, is the new one, saved by the run that
\* ended, with the one new test still pending.
C38_Witness ==
    \E s \in TaskSlots :
        /\ tasks[s] # Idle
        /\ tasks[s].kind = "all"
        /\ tasks[s].array = "old"
        /\ tasks[s].pc = "next"
        /\ tasks[s].index = 1
        /\ Len(tasks[s].items) = 2
        /\ Len(transactions) = 1
        /\ transactions[1].id \notin {tasks[s].items[k] : k \in 1..Len(tasks[s].items)}
        /\ transactions[1].status = "pending"
        /\ storage # NoSnapshot
        /\ storage.transactions = transactions

====
